---- MODULE Spec2Model ----
(***************************************************************************)
(* type-draw: a shared canvas on which participants type glyphs that flow  *)
(* towards a target point.  This module models                             *)
(*   - the PartyKit server TypeDrawServer            (src/App.tsx 35-270), *)
(*   - the replication hook usePartySocket      (src/unnamed/part_002),    *)
(*   - the multi-user canvas controller TypeCanvas                         *)
(*                                        (src/unnamed/part_000 361-1099), *)
(* connected by one FIFO channel per direction and per connection.         *)
(*                                                                         *)
(* Modelling conventions                                                   *)
(*   - A handler runs atomically and React has rendered between two        *)
(*     events, so at the start of a handler every ref (linesRef,           *)
(*     activeLineIdRef, ...) equals the state it mirrors.  Inside one      *)
(*     handler the refs keep their value (handlePaste).                    *)
(*   - Math.random() ids are fresh: <<owner page, counter>>.               *)
(*   - Coordinates are integers.  LETTER_SPACING * cos/sin(atan2(dy,dx))   *)
(*     is exact for the four axial directions and is kept on the integer   *)
(*     grid (nearest integer) for an oblique direction.                    *)
(*   - JSON.stringify / JSON.parse of a message copies the value it is     *)
(*     given at the time of the call; messages are values.                 *)
(*   - The user acts on a page once its socket has opened.                 *)
(*   - ev, born and joinSnap are history variables: the last user event    *)
(*     with the messages it handed to the open socket, whether nothing was *)
(*     in flight when it happened and which lines of the server's document *)
(*     belonged to a closed page then; each line's owner and style at      *)
(*     creation; the server's state at each join.                          *)
(***************************************************************************)
EXTENDS Integers, Sequences, FiniteSets, TLC

\* ------------------------------------------------------------------ bounds

\* Number of browser pages (clients) that may join the room.
NClients == 2

\* Number of user-interface events (keys, pointer, buttons) in a run that
\* starts with the pages loading; the first page's user acts.
MaxInputs == 3

\* Number of keys and pointer moves in a run in which every user types.
PairInputs == 3

\* Number of user-interface events in a run in which everyone has joined, one
\* user acts and the other pages watch.
SoloInputs == 4

\* Number of user-interface events in a run that starts from a canvas on which
\* two users have already typed.
SharedInputs == 3

\* User-interface events in SpecLeaving (everyone has joined; typing, closing
\* the page and clear-all only)
LeaveInputs == 4

\* Payloads sent in SpecMalformed (everyone has joined; typing and malformed
\* payloads only)
MalformedInputs == 3

\* Pages in SpecRoster (joins and leaves only)
MaxPages == 4

\* Pages that may leave in SpecRoster
RosterInputs == 2

\* Math.random() in randomChoice picks one of the first MaxRandIdx entries.
MaxRandIdx == 1

ClientNames == <<"p1", "p2", "p3", "p4", "p5", "p6", "p7", "p8">>

Clients == {ClientNames[i] : i \in 1..NClients}

\* ------------------------------------------------------- program constants

LETTER_SPACING == 12

COLORS == <<"#A6CEE3", "#1F78B4", "#B2DF8A", "#33A02C", "#FB9A99", "#E31A1C", "#FDBF6F">>

FONT_SIZES == <<11, 18, 28>>

FONT_FAMILIES == <<"Space Mono", "Playfair Display", "Inter">>

\* AppMode
TYPING == "TYPING"

NAVIGATION == "NAVIGATION"

\* createLine's fall-backs when currentUser is null
LocalUserId == "local"

LocalColor == "#000000"

LocalFontSize == 16

LocalFontFamily == "sans-serif"

\* user?.id when user is null
Undefined == "undefined"

\* null for a line id (activeLineId, draggingLineId)
NoLine == <<>>

Pt(x, y) == [x |-> x, y |-> y]

\* Pointer positions the user can reach.  From (12,12): (24,12) is exactly
\* LETTER_SPACING away along the x axis, (21,21) is oblique and 12.7 away;
\* (24,12) and (21,21) are 9.5 apart.
Targets == {Pt(12, 12), Pt(24, 12), Pt(21, 21)}

\* window.innerWidth / 2, window.innerHeight / 2
WindowCentre == Pt(12, 12)

\* Printable keys
Keys == {"a"}

\* ------------------------------------------------------------------- state

VARIABLES
    srvUsers,        \* server: this.state.users, conn id -> User
    srvLines,        \* server: this.state.lines, a sequence of Line
    conns,           \* server: the room's open connections (room.broadcast)
    status,          \* client: socket state, "idle" | "open" | "closed"
    currentUser,     \* client: currentUser, <<>> for null or <<User>>
    remoteUsers,     \* client: remoteUsers, user id -> User
    lines,           \* client: lines, a sequence of Line (the replica)
    activeLineId,    \* client: activeLineId
    selectedLineIds, \* client: selectedLineIds
    targetPos,       \* client: targetPos
    mode,            \* client: App's mode
    draggingLineId,  \* client: draggingLineId
    dragOffset,      \* client: dragOffset
    idCtr,           \* client: how many ids this page has generated
    toServer,        \* network: client -> server, FIFO per connection
    toClient,        \* network: server -> client, FIFO per connection
    nInputs,         \* number of user-interface events so far
    ev,              \* the last client event: who, what, which messages it sent
    born,            \* history: line id -> owner and style at creation
    joinSnap,        \* history: client -> the server's state when it joined
    actors,          \* scenario: the pages whose user acts (the others watch)
    budget           \* scenario: how many user-interface events may happen

serverVars == <<srvUsers, srvLines, conns>>

uiVars == <<activeLineId, selectedLineIds, targetPos, mode, draggingLineId, dragOffset>>

hookVars == <<currentUser, remoteUsers, lines>>

vars == <<srvUsers, srvLines, conns, status, currentUser, remoteUsers, lines, activeLineId, selectedLineIds, targetPos, mode, draggingLineId, dragOffset, idCtr, toServer, toClient, nInputs, ev, born, joinSnap, actors, budget>>

\* ----------------------------------------------------------------- helpers

Min(S) == CHOOSE m \in S : \A n \in S : m <= n

Abs(a) == IF a < 0 THEN -a ELSE a

Range(s) == {s[i] : i \in 1..Len(s)}

\* Array.prototype.map over a sequence of lines
MapSeq(s, F(_)) == [i \in 1..Len(s) |-> F(s[i])]

\* Array.prototype.filter
FilterSeq(s, P(_)) == SelectSeq(s, P)

\* Array.prototype.find: <<>> when absent, else <<first match>>
FindLine(ls, id) ==
    LET idx == {i \in 1..Len(ls) : ls[i].id = id}
    IN  IF idx = {} THEN <<>> ELSE <<ls[Min(idx)]>>

\* Array.prototype.findIndex: 0 stands for -1
FindIndex(ls, id) ==
    LET idx == {i \in 1..Len(ls) : ls[i].id = id}
    IN  IF idx = {} THEN 0 ELSE Min(idx)

LineIds(ls) == {ls[i].id : i \in 1..Len(ls)}

\* user?.id
UserIdOf(c) == IF currentUser[c] = <<>> THEN Undefined ELSE currentUser[c][1].id

\* ---------------------------------------------------------------- geometry

\* dx*dx + dy*dy, the square of Math.sqrt(dx*dx + dy*dy)
DistSq(dx, dy) == dx * dx + dy * dy

\* Mutation of TooClose: no distance is too small
TooCloseNever(dx, dy) == FALSE

\* distance < LETTER_SPACING, for integer dx, dy
TooClose(dx, dy) == DistSq(dx, dy) < LETTER_SPACING * LETTER_SPACING

\* LETTER_SPACING * |a| / sqrt(dx*dx + dy*dy), to the nearest integer:
\* Math.cos(angle) * LETTER_SPACING for a = dx, Math.sin(angle) * ... for a = dy
Along(a, dx, dy) ==
    LET D == DistSq(dx, dy)
        m == Abs(a)
        q == 4 * LETTER_SPACING * LETTER_SPACING * m * m
        k == CHOOSE n \in 0..LETTER_SPACING :
                /\ (n = 0 \/ (2 * n - 1) * (2 * n - 1) * D <= q)
                /\ (2 * n + 1) * (2 * n + 1) * D > q
    IN  IF a < 0 THEN -k ELSE k

\* atan2(0, 0) = 0, so the step is (LETTER_SPACING, 0) when dx = dy = 0
StepX(dx, dy) == IF dx = 0 /\ dy = 0 THEN LETTER_SPACING ELSE Along(dx, dx, dy)

StepY(dx, dy) == IF dx = 0 /\ dy = 0 THEN 0 ELSE Along(dy, dx, dy)

\* ------------------------------------------------------------ the network

\* sendMessage: the messages go out only while the socket is OPEN
Sent(c, out) == IF status[c] = "open" THEN out ELSE <<>>

MsgTypes(out) == [i \in 1..Len(out) |-> out[i].type]

\* Mutation of Broadcast: the exclusion list is ignored
BroadcastToAll(q, msg, without) ==
    [x \in DOMAIN q |->
        IF x \in conns /\ status[x] = "open"
        THEN Append(q[x], msg) ELSE q[x]]

\* room.broadcast(msg, without): to every open connection not excluded; a
\* message for a client whose socket has closed is lost
Broadcast(q, msg, without) ==
    [x \in DOMAIN q |->
        IF x \in conns /\ x \notin without /\ status[x] = "open"
        THEN Append(q[x], msg) ELSE q[x]]

\* --------------------------------------------------- server: TypeDrawServer

\* randomChoice: the values Math.random() can select
randomChoice(arr) == {arr[i] : i \in 1..(IF Len(arr) < MaxRandIdx THEN Len(arr) ELSE MaxRandIdx)}

\* Mutation of getUnusedOrRandom: the values in use are not avoided
getRandom(options, usedValues) == randomChoice(options)

getUnusedOrRandom(options, usedValues) ==
    LET unused == SelectSeq(options, LAMBDA opt : opt \notin usedValues)
    IN  IF Len(unused) > 0 THEN randomChoice(unused) ELSE randomChoice(options)

\* the values onConnect may assign on one axis
AssignAxis(options, usedValues, userCount) ==
    IF userCount < Len(options)
    THEN getUnusedOrRandom(options, usedValues)
    ELSE randomChoice(options)

\* The socket of page c opens and the server runs onConnect for it.
OnConnect(c) ==
    /\ status[c] = "idle"
    /\ \A i \in DOMAIN ClientNames : ClientNames[i] = c =>
           \A j \in 1..(i - 1) : ClientNames[j] \in DOMAIN status => status[ClientNames[j]] # "idle"
    /\ LET ids == DOMAIN srvUsers
           userCount == Cardinality(ids)
           usedColors == {srvUsers[u].color : u \in ids}
           usedFonts == {srvUsers[u].fontFamily : u \in ids}
           usedSizes == {srvUsers[u].fontSize : u \in ids}
       IN  \E color \in AssignAxis(COLORS, usedColors, userCount),
              fontFamily \in AssignAxis(FONT_FAMILIES, usedFonts, userCount),
              fontSize \in AssignAxis(FONT_SIZES, usedSizes, userCount) :
             LET user == [id |-> c, color |-> color, fontSize |-> fontSize,
                          fontFamily |-> fontFamily, cursor |-> Pt(0, 0)]
                 users2 == [u \in ids \cup {c} |-> IF u = c THEN user ELSE srvUsers[u]]
                 state2 == [users |-> users2, lines |-> srvLines]
                 initMessage == [type |-> "init", userId |-> c, user |-> user, state |-> state2]
                 joinMessage == [type |-> "userJoined", user |-> user]
                 q1 == [toClient EXCEPT ![c] = Append(@, initMessage)]
             IN  /\ srvUsers' = users2
                 /\ conns' = conns \cup {c}
                 /\ status' = [status EXCEPT ![c] = "open"]
                 /\ toClient' = [x \in DOMAIN toClient |->
                        IF x \in conns /\ x # c /\ status[x] = "open"
                        THEN Append(q1[x], joinMessage) ELSE q1[x]]
                 /\ joinSnap' = [joinSnap EXCEPT ![c] = <<state2>>]
    /\ UNCHANGED <<srvLines, hookVars, uiVars, idCtr, toServer, nInputs, ev, born, actors, budget>>

\* The next thing the server reads from connection c has this type.
ServerHead(c, type) ==
    /\ c \in conns
    /\ Len(toServer[c]) > 0
    /\ Head(toServer[c]).type = type

ServerTail(c) == toServer' = [toServer EXCEPT ![c] = Tail(@)]

clientVars == <<status, hookVars, uiVars, idCtr, nInputs, ev, born, joinSnap, actors, budget>>

\* Mutation of OnClose: the participant stays in the roster
OnCloseKeepingUser(c) ==
    /\ ServerHead(c, "close")
    /\ ServerTail(c)
    /\ srvUsers' = srvUsers
    /\ conns' = conns \ {c}
    /\ toClient' = [x \in DOMAIN toClient |->
            IF x \in conns' /\ status[x] = "open"
            THEN Append(toClient[x], [type |-> "userLeft", userId |-> c]) ELSE toClient[x]]
    /\ UNCHANGED <<srvLines, clientVars>>

\* Mutation of OnClose: the lines of the participant who left are removed
OnCloseDroppingLines(c) ==
    /\ ServerHead(c, "close")
    /\ ServerTail(c)
    /\ srvUsers' = [u \in DOMAIN srvUsers \ {c} |-> srvUsers[u]]
    /\ conns' = conns \ {c}
    /\ srvLines' = SelectSeq(srvLines, LAMBDA l : l.userId # c)
    /\ toClient' = [x \in DOMAIN toClient |->
            IF x \in conns' /\ status[x] = "open"
            THEN Append(toClient[x], [type |-> "userLeft", userId |-> c]) ELSE toClient[x]]
    /\ UNCHANGED clientVars

OnClose(c) ==
    /\ ServerHead(c, "close")
    /\ ServerTail(c)
    /\ srvUsers' = [u \in DOMAIN srvUsers \ {c} |-> srvUsers[u]]
    /\ conns' = conns \ {c}
    /\ toClient' = [x \in DOMAIN toClient |->
            IF x \in conns' /\ status[x] = "open"
            THEN Append(toClient[x], [type |-> "userLeft", userId |-> c]) ELSE toClient[x]]
    /\ UNCHANGED <<srvLines, clientVars>>

\* Mutation of OnMessageCursor: the cursor is relayed but not stored
OnMessageCursorNotStored(c) ==
    /\ ServerHead(c, "cursor")
    /\ ServerTail(c)
    /\ LET data == Head(toServer[c])
       IN  toClient' = Broadcast(toClient,
               [type |-> "cursor", userId |-> c, cursor |-> data.cursor], {c})
    /\ UNCHANGED <<srvUsers, srvLines, conns, clientVars>>

\* onMessage, case 'cursor'
OnMessageCursor(c) ==
    /\ ServerHead(c, "cursor")
    /\ ServerTail(c)
    /\ LET data == Head(toServer[c])
       IN  /\ srvUsers' = IF c \in DOMAIN srvUsers
                          THEN [srvUsers EXCEPT ![c].cursor = data.cursor] ELSE srvUsers
           /\ toClient' = Broadcast(toClient,
                  [type |-> "cursor", userId |-> c, cursor |-> data.cursor], {c})
    /\ UNCHANGED <<srvLines, conns, clientVars>>

\* onMessage, case 'addLine'
OnMessageAddLine(c) ==
    /\ ServerHead(c, "addLine")
    /\ ServerTail(c)
    /\ LET data == Head(toServer[c])
       IN  /\ srvLines' = Append(srvLines, data.line)
           /\ toClient' = Broadcast(toClient, [type |-> "addLine", line |-> data.line], {c})
    /\ UNCHANGED <<srvUsers, conns, clientVars>>

\* Mutation of OnMessageUpdateLine: a line the document lacks is created
OnMessageUpdateLineUpsert(c) ==
    /\ ServerHead(c, "updateLine")
    /\ ServerTail(c)
    /\ LET data == Head(toServer[c])
           lineIndex == FindIndex(srvLines, data.line.id)
       IN  /\ srvLines' = IF lineIndex # 0
                          THEN [srvLines EXCEPT ![lineIndex] = data.line]
                          ELSE Append(srvLines, data.line)
           /\ toClient' = Broadcast(toClient, [type |-> "updateLine", line |-> data.line], {c})
    /\ UNCHANGED <<srvUsers, conns, clientVars>>

\* Mutation of OnMessageUpdateLine: the server restyles the line it stores and
\* relays
OnMessageUpdateLineRestyled(c) ==
    /\ ServerHead(c, "updateLine")
    /\ ServerTail(c)
    /\ LET data == Head(toServer[c])
           restyled == [data.line EXCEPT !.color = LocalColor]
           lineIndex == FindIndex(srvLines, data.line.id)
       IN  /\ srvLines' = IF lineIndex # 0
                          THEN [srvLines EXCEPT ![lineIndex] = restyled] ELSE srvLines
           /\ toClient' = Broadcast(toClient, [type |-> "updateLine", line |-> restyled], {c})
    /\ UNCHANGED <<srvUsers, conns, clientVars>>

\* onMessage, case 'updateLine'
OnMessageUpdateLine(c) ==
    /\ ServerHead(c, "updateLine")
    /\ ServerTail(c)
    /\ LET data == Head(toServer[c])
           lineIndex == FindIndex(srvLines, data.line.id)
       IN  /\ srvLines' = IF lineIndex # 0
                          THEN [srvLines EXCEPT ![lineIndex] = data.line] ELSE srvLines
           /\ toClient' = Broadcast(toClient, [type |-> "updateLine", line |-> data.line], {c})
    /\ UNCHANGED <<srvUsers, conns, clientVars>>

\* onMessage, case 'deleteLines'
OnMessageDeleteLines(c) ==
    /\ ServerHead(c, "deleteLines")
    /\ ServerTail(c)
    /\ LET data == Head(toServer[c])
       IN  /\ srvLines' = SelectSeq(srvLines, LAMBDA l : l.id \notin data.lineIds)
           /\ toClient' = Broadcast(toClient,
                  [type |-> "deleteLines", lineIds |-> data.lineIds], {c})
    /\ UNCHANGED <<srvUsers, conns, clientVars>>

\* Mutation of ResyncedLines: the sender's lines are added to the document
ResyncedLinesAdded(stateLines, sender, dataLines) ==
    stateLines \o SelectSeq(dataLines, LAMBDA l : l.userId = sender)

\* this.state.lines after the 'lines' case: the lines of the other owners,
\* then the sender's lines of the message
ResyncedLines(stateLines, sender, dataLines) ==
    LET otherLines == SelectSeq(stateLines, LAMBDA l : l.userId # sender)
        userLines == SelectSeq(dataLines, LAMBDA l : l.userId = sender)
    IN  otherLines \o userLines

\* Mutation of OnMessageLines: the message's lines replace the whole document
OnMessageLinesWhole(c) ==
    /\ ServerHead(c, "lines")
    /\ ServerTail(c)
    /\ LET data == Head(toServer[c])
           userLines == SelectSeq(data.lines, LAMBDA l : l.userId = c)
       IN  /\ srvLines' = userLines
           /\ toClient' = Broadcast(toClient, [type |-> "sync", lines |-> userLines], {c})
    /\ UNCHANGED <<srvUsers, conns, clientVars>>

\* onMessage, case 'lines'
OnMessageLines(c) ==
    /\ ServerHead(c, "lines")
    /\ ServerTail(c)
    /\ LET data == Head(toServer[c])
           lines2 == ResyncedLines(srvLines, c, data.lines)
       IN  /\ srvLines' = lines2
           /\ toClient' = Broadcast(toClient, [type |-> "sync", lines |-> lines2], {c})
    /\ UNCHANGED <<srvUsers, conns, clientVars>>

\* --------------------------------------- client: usePartySocket, on message

ClientHead(c, type) ==
    /\ status[c] = "open"
    /\ Len(toClient[c]) > 0
    /\ Head(toClient[c]).type = type

ClientTail(c) == toClient' = [toClient EXCEPT ![c] = Tail(@)]

restVars == <<serverVars, status, uiVars, idCtr, toServer, nInputs, ev, born, joinSnap, actors, budget>>

\* Mutation of ClientInit: the snapshot's lines are added to the replica
ClientInitKeepingLines(c) ==
    /\ ClientHead(c, "init")
    /\ ClientTail(c)
    /\ LET message == Head(toClient[c])
           others == [id \in DOMAIN message.state.users \ {message.userId} |->
                         message.state.users[id]]
       IN  /\ currentUser' = [currentUser EXCEPT ![c] = <<message.user>>]
           /\ remoteUsers' = [remoteUsers EXCEPT ![c] = others]
           /\ lines' = [lines EXCEPT ![c] = @ \o message.state.lines]
    /\ UNCHANGED restVars

\* case 'init'
ClientInit(c) ==
    /\ ClientHead(c, "init")
    /\ ClientTail(c)
    /\ LET message == Head(toClient[c])
           others == [id \in DOMAIN message.state.users \ {message.userId} |->
                         message.state.users[id]]
       IN  /\ currentUser' = [currentUser EXCEPT ![c] = <<message.user>>]
           /\ remoteUsers' = [remoteUsers EXCEPT ![c] = others]
           /\ lines' = [lines EXCEPT ![c] = message.state.lines]
    /\ UNCHANGED restVars

\* case 'userJoined'
ClientUserJoined(c) ==
    /\ ClientHead(c, "userJoined")
    /\ ClientTail(c)
    /\ LET message == Head(toClient[c])
           prev == remoteUsers[c]
       IN  remoteUsers' = [remoteUsers EXCEPT ![c] =
               [id \in DOMAIN prev \cup {message.user.id} |->
                   IF id = message.user.id THEN message.user ELSE prev[id]]]
    /\ UNCHANGED <<currentUser, lines, restVars>>

\* case 'userLeft'
ClientUserLeft(c) ==
    /\ ClientHead(c, "userLeft")
    /\ ClientTail(c)
    /\ LET message == Head(toClient[c])
           prev == remoteUsers[c]
       IN  remoteUsers' = [remoteUsers EXCEPT ![c] =
               [id \in DOMAIN prev \ {message.userId} |-> prev[id]]]
    /\ UNCHANGED <<currentUser, lines, restVars>>

\* case 'cursor'
ClientCursor(c) ==
    /\ ClientHead(c, "cursor")
    /\ ClientTail(c)
    /\ LET message == Head(toClient[c])
           prev == remoteUsers[c]
       IN  remoteUsers' = [remoteUsers EXCEPT ![c] =
               IF message.userId \in DOMAIN prev
               THEN [prev EXCEPT ![message.userId].cursor = message.cursor]
               ELSE prev]
    /\ UNCHANGED <<currentUser, lines, restVars>>

\* Mutation of SyncedLines: the sync's lines are added to the replica
SyncedLinesAdded(prev, message) == prev \o message.lines

\* setLinesState(message.lines)
SyncedLines(prev, message) == message.lines

\* case 'sync'
ClientSync(c) ==
    /\ ClientHead(c, "sync")
    /\ ClientTail(c)
    /\ lines' = [lines EXCEPT ![c] = SyncedLines(@, Head(toClient[c]))]
    /\ UNCHANGED <<currentUser, remoteUsers, restVars>>

\* case 'addLine'
ClientAddLine(c) ==
    /\ ClientHead(c, "addLine")
    /\ ClientTail(c)
    /\ lines' = [lines EXCEPT ![c] = Append(@, Head(toClient[c]).line)]
    /\ UNCHANGED <<currentUser, remoteUsers, restVars>>

\* case 'updateLine'
ClientUpdateLine(c) ==
    /\ ClientHead(c, "updateLine")
    /\ ClientTail(c)
    /\ LET message == Head(toClient[c])
       IN  lines' = [lines EXCEPT ![c] =
               [i \in 1..Len(@) |-> IF @[i].id = message.line.id THEN message.line ELSE @[i]]]
    /\ UNCHANGED <<currentUser, remoteUsers, restVars>>

\* case 'deleteLines'
ClientDeleteLines(c) ==
    /\ ClientHead(c, "deleteLines")
    /\ ClientTail(c)
    /\ LET message == Head(toClient[c])
       IN  lines' = [lines EXCEPT ![c] = SelectSeq(@, LAMBDA l : l.id \notin message.lineIds)]
    /\ UNCHANGED <<currentUser, remoteUsers, restVars>>

\* ------------------------------------------- client: usePartySocket, sending

\* Mutation of SetLinesOut: the resync is sent twice
SetLinesOutTwice(c, newLines) ==
    IF currentUser[c] # <<>>
    THEN <<[type |-> "lines",
            lines |-> SelectSeq(newLines, LAMBDA l : l.userId = UserIdOf(c))],
           [type |-> "lines",
            lines |-> SelectSeq(newLines, LAMBDA l : l.userId = UserIdOf(c))]>>
    ELSE <<>>

\* usePartySocket.setLines: the 'lines' resync it sends after setLinesState
SetLinesOut(c, newLines) ==
    IF currentUser[c] # <<>>
    THEN <<[type |-> "lines",
            lines |-> SelectSeq(newLines, LAMBDA l : l.userId = UserIdOf(c))]>>
    ELSE <<>>

\* No message is in flight in either direction
Quiescent == \A c \in DOMAIN toServer : toServer[c] = <<>> /\ toClient[c] = <<>>

\* The lines of the server's document whose owner's socket has closed
Orphans ==
    {srvLines[i].id : i \in {k \in 1..Len(srvLines) :
        /\ "userId" \in DOMAIN srvLines[k]
        /\ srvLines[k].userId \in DOMAIN status
        /\ status[srvLines[k].userId] = "closed"}}

\* One user-interface event of page c ends: what it sent goes to the socket.
Emit(c, kind, out) ==
    /\ status[c] # "idle"
    /\ c \in actors
    /\ nInputs < budget
    /\ nInputs' = nInputs + 1
    /\ toServer' = [toServer EXCEPT ![c] = @ \o Sent(c, out)]
    /\ ev' = [client |-> c, kind |-> kind, sent |-> Sent(c, out),
              quiet |-> Quiescent, orphans |-> Orphans]

\* The socket of page c closes: the 'close' listener runs, what the server had
\* sent and was not yet delivered is lost, and the server will see the close
\* after the messages the page had already sent.
SocketClose(c) ==
    /\ status[c] = "open"
    /\ c \in actors
    /\ nInputs < budget
    /\ nInputs' = nInputs + 1
    /\ ev' = [client |-> c, kind |-> "close", sent |-> <<>>,
              quiet |-> Quiescent, orphans |-> Orphans]
    /\ status' = [status EXCEPT ![c] = "closed"]
    /\ toClient' = [toClient EXCEPT ![c] = <<>>]
    /\ toServer' = [toServer EXCEPT ![c] = Append(@, [type |-> "close"])]
    /\ UNCHANGED <<serverVars, hookVars, uiVars, idCtr, born, joinSnap, actors, budget>>

\* ----------------------------------------------------- client: TypeCanvas

\* createLine; n is the number of ids this page has generated so far
createLine(c, x, y, n) ==
    [id |-> <<c, n + 1>>, chars |-> <<>>, x |-> x, y |-> y,
     userId |-> IF currentUser[c] = <<>> THEN LocalUserId ELSE currentUser[c][1].id,
     color |-> IF currentUser[c] = <<>> THEN LocalColor ELSE currentUser[c][1].color,
     fontSize |-> IF currentUser[c] = <<>> THEN LocalFontSize ELSE currentUser[c][1].fontSize,
     fontFamily |-> IF currentUser[c] = <<>> THEN LocalFontFamily ELSE currentUser[c][1].fontFamily]

\* Mutation of ReplaceLine: every line is replaced
ReplaceEveryLine(ls, id, updatedLine) == [i \in 1..Len(ls) |-> updatedLine]

\* lines.map(l => l.id === id ? updatedLine : l)
ReplaceLine(ls, id, updatedLine) ==
    [i \in 1..Len(ls) |-> IF ls[i].id = id THEN updatedLine ELSE ls[i]]

\* Mutation of firstChar: the first glyph is offset by the target position
firstCharAtTarget(c, charValue, n) ==
    [id |-> <<c, n + 2>>, value |-> charValue, x |-> targetPos[c].x, y |-> targetPos[c].y]

\* finalChar of a new line: the first glyph sits on the line's origin
firstChar(c, charValue, n) == [id |-> <<c, n + 2>>, value |-> charValue, x |-> 0, y |-> 0]

\* addCharToCanvas(charValue, activeId), reading linesRef.current = linesRef with
\* n ids generated so far.  The result tells whether setLines was called
\* (set) and with what (newLines), the messages handed to sendMessage in order
\* (out), the ids used (used), the line created (created) and newActiveId.
addCharToCanvas(c, charValue, activeId, linesRef, n) ==
    LET uid == UserIdOf(c)
        found == FindLine(linesRef, activeId)
        notOwn == found # <<>> /\ found[1].userId # uid
        currentLineId == IF notOwn THEN NoLine ELSE activeId
        current == IF notOwn THEN <<>> ELSE found
    IN  IF currentLineId = NoLine \/ current = <<>>
        THEN LET newLine == createLine(c, targetPos[c].x, targetPos[c].y, n)
                 finalChar == firstChar(c, charValue, n)
                 lineWithChar == [newLine EXCEPT !.chars = <<finalChar>>]
                 newLines == Append(linesRef, lineWithChar)
             IN  [newActiveId |-> newLine.id, set |-> TRUE, newLines |-> newLines,
                  out |-> SetLinesOut(c, newLines) \o <<[type |-> "addLine", line |-> lineWithChar]>>,
                  used |-> 2, created |-> <<lineWithChar>>]
        ELSE LET currentLine == current[1]
                 len == Len(currentLine.chars)
                 startX == IF len > 0 THEN currentLine.chars[len].x ELSE 0
                 startY == IF len > 0 THEN currentLine.chars[len].y ELSE 0
                 dx == targetPos[c].x - (currentLine.x + startX)
                 dy == targetPos[c].y - (currentLine.y + startY)
             IN  IF len > 0 /\ TooClose(dx, dy)
                 THEN [newActiveId |-> currentLineId, set |-> FALSE, newLines |-> linesRef,
                       out |-> <<>>, used |-> 0, created |-> <<>>]
                 ELSE LET finalChar == [id |-> <<c, n + 1>>, value |-> charValue,
                                        x |-> IF len = 0 THEN 0 ELSE startX + StepX(dx, dy),
                                        y |-> IF len = 0 THEN 0 ELSE startY + StepY(dx, dy)]
                          updatedLine == [currentLine EXCEPT !.chars = Append(@, finalChar)]
                          newLines == ReplaceLine(linesRef, currentLineId, updatedLine)
                      IN  [newActiveId |-> currentLineId, set |-> TRUE, newLines |-> newLines,
                           out |-> SetLinesOut(c, newLines)
                                   \o <<[type |-> "updateLine", line |-> updatedLine]>>,
                           used |-> 1, created |-> <<>>]

\* history: the owner and style a line was created with
Birth(l) == [userId |-> l.userId, color |-> l.color, fontSize |-> l.fontSize, fontFamily |-> l.fontFamily]

Register(created) ==
    [id \in DOMAIN born \cup {l.id : l \in created} |->
        IF id \in DOMAIN born THEN born[id] ELSE Birth(CHOOSE l \in created : l.id = id)]

netVars == <<serverVars, status, toClient, joinSnap, actors, budget>>

\* Mutation of KeyEscape: entering NAVIGATION mode keeps the active line
KeyEscapeKeepingActive(c) ==
    /\ Emit(c, "Escape", <<>>)
    /\ IF mode[c] = TYPING
       THEN /\ mode' = [mode EXCEPT ![c] = NAVIGATION]
            /\ selectedLineIds' = [selectedLineIds EXCEPT ![c] = {}]
            /\ UNCHANGED activeLineId
       ELSE /\ mode' = [mode EXCEPT ![c] = TYPING]
            /\ UNCHANGED <<activeLineId, selectedLineIds>>
    /\ UNCHANGED <<netVars, hookVars, targetPos, draggingLineId, dragOffset, idCtr, born>>

\* handleKeyDown, e.key === 'Escape'
KeyEscape(c) ==
    /\ Emit(c, "Escape", <<>>)
    /\ IF mode[c] = TYPING
       THEN /\ mode' = [mode EXCEPT ![c] = NAVIGATION]
            /\ activeLineId' = [activeLineId EXCEPT ![c] = NoLine]
            /\ selectedLineIds' = [selectedLineIds EXCEPT ![c] = {}]
       ELSE /\ mode' = [mode EXCEPT ![c] = TYPING]
            /\ UNCHANGED <<activeLineId, selectedLineIds>>
    /\ UNCHANGED <<netVars, hookVars, targetPos, draggingLineId, dragOffset, idCtr, born>>

\* Mutation of NavigationDelete: every selected line is removed
NavigationDeleteAnyOwner(c, key) ==
    LET toDelete == {id \in selectedLineIds[c] : FindLine(lines[c], id) # <<>>}
        newLines == SelectSeq(lines[c], LAMBDA l : l.id \notin toDelete)
    IN  /\ IF toDelete # {}
           THEN /\ lines' = [lines EXCEPT ![c] = newLines]
                /\ Emit(c, key, SetLinesOut(c, newLines)
                                \o <<[type |-> "deleteLines", lineIds |-> toDelete]>>)
           ELSE /\ UNCHANGED lines
                /\ Emit(c, key, <<>>)
        /\ selectedLineIds' = [selectedLineIds EXCEPT ![c] = {}]
        /\ UNCHANGED activeLineId

\* handleKeyDown in NAVIGATION mode, e.key === 'Backspace' || e.key === 'Delete'
NavigationDelete(c, key) ==
    LET toDelete == {id \in selectedLineIds[c] :
                        LET line == FindLine(lines[c], id)
                        IN  line # <<>> /\ line[1].userId = UserIdOf(c)}
        newLines == SelectSeq(lines[c], LAMBDA l : l.id \notin toDelete)
    IN  /\ IF toDelete # {}
           THEN /\ lines' = [lines EXCEPT ![c] = newLines]
                /\ Emit(c, key, SetLinesOut(c, newLines)
                                \o <<[type |-> "deleteLines", lineIds |-> toDelete]>>)
           ELSE /\ UNCHANGED lines
                /\ Emit(c, key, <<>>)
        /\ selectedLineIds' = [selectedLineIds EXCEPT ![c] = {}]
        /\ UNCHANGED activeLineId

\* Mutation of TypingBackspace: two glyphs are removed at a time
TypingBackspaceTwoGlyphs(c) ==
    LET activeId == activeLineId[c]
        line == FindLine(lines[c], activeId)
    IN  IF activeId # NoLine /\ line # <<>> /\ line[1].userId = UserIdOf(c)
        THEN LET newChars == SubSeq(line[1].chars, 1, Len(line[1].chars) - 2)
             IN  IF Len(newChars) = 0
                 THEN LET newLines == SelectSeq(lines[c], LAMBDA l : l.id # activeId)
                      IN  /\ lines' = [lines EXCEPT ![c] = newLines]
                          /\ Emit(c, "Backspace", SetLinesOut(c, newLines)
                                 \o <<[type |-> "deleteLines", lineIds |-> {activeId}]>>)
                          /\ activeLineId' = [activeLineId EXCEPT ![c] = NoLine]
                          /\ UNCHANGED selectedLineIds
                 ELSE LET updatedLine == [line[1] EXCEPT !.chars = newChars]
                          newLines == ReplaceLine(lines[c], activeId, updatedLine)
                      IN  /\ lines' = [lines EXCEPT ![c] = newLines]
                          /\ Emit(c, "Backspace", SetLinesOut(c, newLines)
                                 \o <<[type |-> "updateLine", line |-> updatedLine]>>)
                          /\ UNCHANGED <<activeLineId, selectedLineIds>>
        ELSE /\ Emit(c, "Backspace", <<>>)
             /\ UNCHANGED <<lines, activeLineId, selectedLineIds>>

\* Mutation of TypingBackspace: the removed line stays the active line
TypingBackspaceStayingActive(c) ==
    LET activeId == activeLineId[c]
        line == FindLine(lines[c], activeId)
    IN  IF activeId # NoLine /\ line # <<>> /\ line[1].userId = UserIdOf(c)
        THEN LET newChars == SubSeq(line[1].chars, 1, Len(line[1].chars) - 1)
             IN  IF Len(newChars) = 0
                 THEN LET newLines == SelectSeq(lines[c], LAMBDA l : l.id # activeId)
                      IN  /\ lines' = [lines EXCEPT ![c] = newLines]
                          /\ Emit(c, "Backspace", SetLinesOut(c, newLines)
                                 \o <<[type |-> "deleteLines", lineIds |-> {activeId}]>>)
                          /\ UNCHANGED <<activeLineId, selectedLineIds>>
                 ELSE LET updatedLine == [line[1] EXCEPT !.chars = newChars]
                          newLines == ReplaceLine(lines[c], activeId, updatedLine)
                      IN  /\ lines' = [lines EXCEPT ![c] = newLines]
                          /\ Emit(c, "Backspace", SetLinesOut(c, newLines)
                                 \o <<[type |-> "updateLine", line |-> updatedLine]>>)
                          /\ UNCHANGED <<activeLineId, selectedLineIds>>
        ELSE /\ Emit(c, "Backspace", <<>>)
             /\ UNCHANGED <<lines, activeLineId, selectedLineIds>>

\* Mutation of TypingBackspace: a line that loses its last glyph is kept
TypingBackspaceKeepingLine(c) ==
    LET activeId == activeLineId[c]
        line == FindLine(lines[c], activeId)
    IN  IF activeId # NoLine /\ line # <<>> /\ line[1].userId = UserIdOf(c)
        THEN LET newChars == SubSeq(line[1].chars, 1, Len(line[1].chars) - 1)
                 updatedLine == [line[1] EXCEPT !.chars = newChars]
                 newLines == ReplaceLine(lines[c], activeId, updatedLine)
             IN  /\ lines' = [lines EXCEPT ![c] = newLines]
                 /\ Emit(c, "Backspace", SetLinesOut(c, newLines)
                        \o <<[type |-> "updateLine", line |-> updatedLine]>>)
                 /\ UNCHANGED <<activeLineId, selectedLineIds>>
        ELSE /\ Emit(c, "Backspace", <<>>)
             /\ UNCHANGED <<lines, activeLineId, selectedLineIds>>

\* handleKeyDown in TYPING mode, e.key === 'Backspace'
TypingBackspace(c) ==
    LET activeId == activeLineId[c]
        line == FindLine(lines[c], activeId)
    IN  IF activeId # NoLine /\ line # <<>> /\ line[1].userId = UserIdOf(c)
        THEN LET newChars == SubSeq(line[1].chars, 1, Len(line[1].chars) - 1)
             IN  IF Len(newChars) = 0
                 THEN LET newLines == SelectSeq(lines[c], LAMBDA l : l.id # activeId)
                      IN  /\ lines' = [lines EXCEPT ![c] = newLines]
                          /\ Emit(c, "Backspace", SetLinesOut(c, newLines)
                                 \o <<[type |-> "deleteLines", lineIds |-> {activeId}]>>)
                          /\ activeLineId' = [activeLineId EXCEPT ![c] = NoLine]
                          /\ UNCHANGED selectedLineIds
                 ELSE LET updatedLine == [line[1] EXCEPT !.chars = newChars]
                          newLines == ReplaceLine(lines[c], activeId, updatedLine)
                      IN  /\ lines' = [lines EXCEPT ![c] = newLines]
                          /\ Emit(c, "Backspace", SetLinesOut(c, newLines)
                                 \o <<[type |-> "updateLine", line |-> updatedLine]>>)
                          /\ UNCHANGED <<activeLineId, selectedLineIds>>
        ELSE /\ Emit(c, "Backspace", <<>>)
             /\ UNCHANGED <<lines, activeLineId, selectedLineIds>>

\* handleKeyDown, e.key === 'Backspace' or 'Delete' ('Delete' does nothing in
\* TYPING mode: it is neither Enter, Backspace nor a key of length 1)
KeyDelete(c, key) ==
    /\ IF mode[c] = NAVIGATION
       THEN NavigationDelete(c, key)
       ELSE IF key = "Backspace"
            THEN TypingBackspace(c)
            ELSE /\ Emit(c, key, <<>>)
                 /\ UNCHANGED <<lines, activeLineId, selectedLineIds>>
    /\ UNCHANGED <<netVars, currentUser, remoteUsers, targetPos, mode, draggingLineId, dragOffset, idCtr, born>>

\* Mutation of KeyEnter: the active line stays
KeyEnterKeepingActive(c) ==
    /\ Emit(c, "Enter", <<>>)
    /\ UNCHANGED <<netVars, hookVars, activeLineId, selectedLineIds, targetPos, mode, draggingLineId, dragOffset, idCtr, born>>

\* handleKeyDown, e.key === 'Enter'
KeyEnter(c) ==
    /\ Emit(c, "Enter", <<>>)
    /\ IF mode[c] = TYPING
       THEN activeLineId' = [activeLineId EXCEPT ![c] = NoLine]
       ELSE UNCHANGED activeLineId
    /\ UNCHANGED <<netVars, hookVars, selectedLineIds, targetPos, mode, draggingLineId, dragOffset, idCtr, born>>

\* handleKeyDown, a printable key (e.key.length === 1, no modifier)
KeyChar(c, key) ==
    /\ IF mode[c] = TYPING
       THEN LET result == addCharToCanvas(c, key, activeLineId[c], lines[c], idCtr[c])
            IN  /\ Emit(c, "char", result.out)
                /\ lines' = [lines EXCEPT ![c] = IF result.set THEN result.newLines ELSE @]
                /\ activeLineId' = [activeLineId EXCEPT ![c] =
                       IF result.newActiveId # @ THEN result.newActiveId ELSE @]
                /\ idCtr' = [idCtr EXCEPT ![c] = @ + result.used]
                /\ born' = Register(Range(result.created))
       ELSE /\ Emit(c, "char", <<>>)
            /\ UNCHANGED <<lines, activeLineId, idCtr, born>>
    /\ UNCHANGED <<netVars, currentUser, remoteUsers, selectedLineIds, targetPos, mode, draggingLineId, dragOffset>>

\* char.length === 1 && char >= ' ': the characters a paste keeps
Printable == Keys \cup {"b"}

\* Texts the clipboard may hold (already split into characters)
PasteTexts == {<<"a", "b">>}

\* handlePaste's loop from character i on: every call of addCharToCanvas reads
\* the same linesRef.current, the last setLines decides the state, the
\* messages add up
RECURSIVE PasteLoop(_, _, _, _, _, _)
PasteLoop(c, chars, i, activeId, n, acc) ==
    IF i > Len(chars)
    THEN [acc EXCEPT !.newActiveId = activeId, !.used = n - idCtr[c]]
    ELSE LET result == addCharToCanvas(c, chars[i], activeId, lines[c], n)
         IN  PasteLoop(c, chars, i + 1, result.newActiveId, n + result.used,
                 [newActiveId |-> result.newActiveId,
                  set |-> acc.set \/ result.set,
                  newLines |-> IF result.set THEN result.newLines ELSE acc.newLines,
                  out |-> acc.out \o result.out,
                  used |-> 0,
                  created |-> acc.created \o result.created])

\* handlePaste
Paste(c, text) ==
    /\ IF mode[c] = TYPING
       THEN LET chars == SelectSeq(text, LAMBDA ch : ch \in Printable)
                result == PasteLoop(c, chars, 1, activeLineId[c], idCtr[c],
                              [newActiveId |-> activeLineId[c], set |-> FALSE,
                               newLines |-> lines[c], out |-> <<>>, used |-> 0,
                               created |-> <<>>])
            IN  /\ Emit(c, "paste", result.out)
                /\ lines' = [lines EXCEPT ![c] = IF result.set THEN result.newLines ELSE @]
                /\ activeLineId' = [activeLineId EXCEPT ![c] =
                       IF Len(chars) = 0 THEN @ ELSE result.newActiveId]
                /\ idCtr' = [idCtr EXCEPT ![c] = @ + result.used]
                /\ born' = Register(Range(result.created))
       ELSE /\ Emit(c, "paste", <<>>)
            /\ UNCHANGED <<lines, activeLineId, idCtr, born>>
    /\ UNCHANGED <<netVars, currentUser, remoteUsers, selectedLineIds, targetPos, mode, draggingLineId, dragOffset>>

\* Mutation of MouseMove: the dragged line's origin jumps to the pointer
MouseMoveIgnoringOffset(c, p) ==
    LET line == FindLine(lines[c], draggingLineId[c])
        drags == /\ draggingLineId[c] # NoLine
                 /\ mode[c] = NAVIGATION
                 /\ line # <<>>
                 /\ line[1].userId = UserIdOf(c)
        updatedLine == [line[1] EXCEPT !.x = p.x, !.y = p.y]
        newLines == ReplaceLine(lines[c], draggingLineId[c], updatedLine)
        moved == IF drags
                 THEN SetLinesOut(c, newLines) \o <<[type |-> "updateLine", line |-> updatedLine]>>
                 ELSE <<>>
    IN  /\ Emit(c, "mousemove", moved \o <<[type |-> "cursor", cursor |-> p]>>)
        /\ lines' = [lines EXCEPT ![c] = IF drags THEN newLines ELSE @]
        /\ targetPos' = [targetPos EXCEPT ![c] = p]
        /\ UNCHANGED <<netVars, currentUser, remoteUsers, activeLineId, selectedLineIds, mode, draggingLineId, dragOffset, idCtr, born>>

\* One mousemove at p: the stage's onMouseMove (handleStageMouseMove) runs
\* first, then the window listener (handleMouseMove).
MouseMove(c, p) ==
    LET line == FindLine(lines[c], draggingLineId[c])
        drags == /\ draggingLineId[c] # NoLine
                 /\ mode[c] = NAVIGATION
                 /\ line # <<>>
                 /\ line[1].userId = UserIdOf(c)
        updatedLine == [line[1] EXCEPT !.x = p.x - dragOffset[c].x,
                                       !.y = p.y - dragOffset[c].y]
        newLines == ReplaceLine(lines[c], draggingLineId[c], updatedLine)
        moved == IF drags
                 THEN SetLinesOut(c, newLines) \o <<[type |-> "updateLine", line |-> updatedLine]>>
                 ELSE <<>>
    IN  /\ Emit(c, "mousemove", moved \o <<[type |-> "cursor", cursor |-> p]>>)
        /\ lines' = [lines EXCEPT ![c] = IF drags THEN newLines ELSE @]
        /\ targetPos' = [targetPos EXCEPT ![c] = p]
        /\ UNCHANGED <<netVars, currentUser, remoteUsers, activeLineId, selectedLineIds, mode, draggingLineId, dragOffset, idCtr, born>>

\* Mutation of LineMouseDown: a press starts a drag whoever owns the line
LineMouseDownAnyOwner(c, lineId, shiftKey) ==
    LET line == FindLine(lines[c], lineId)
        e == targetPos[c]
    IN  /\ lineId \in LineIds(lines[c])
        /\ Emit(c, "linedown", <<>>)
        /\ IF mode[c] = NAVIGATION
           THEN /\ selectedLineIds' = [selectedLineIds EXCEPT ![c] =
                       IF shiftKey
                       THEN IF lineId \in @ THEN @ \ {lineId} ELSE @ \cup {lineId}
                       ELSE {lineId}]
                /\ draggingLineId' = [draggingLineId EXCEPT ![c] = lineId]
                /\ dragOffset' = [dragOffset EXCEPT ![c] =
                       Pt(e.x - line[1].x, e.y - line[1].y)]
                /\ UNCHANGED activeLineId
           ELSE /\ activeLineId' = [activeLineId EXCEPT ![c] = lineId]
                /\ UNCHANGED <<selectedLineIds, draggingLineId, dragOffset>>
        /\ UNCHANGED <<netVars, hookVars, targetPos, mode, idCtr, born>>

\* Mutation of LineMouseDown: only own lines can be selected
LineMouseDownSelectingOwn(c, lineId, shiftKey) ==
    LET line == FindLine(lines[c], lineId)
        own == line # <<>> /\ line[1].userId = UserIdOf(c)
        e == targetPos[c]
    IN  /\ lineId \in LineIds(lines[c])
        /\ Emit(c, "linedown", <<>>)
        /\ IF mode[c] = NAVIGATION
           THEN /\ IF own
                   THEN /\ selectedLineIds' = [selectedLineIds EXCEPT ![c] =
                               IF shiftKey
                               THEN IF lineId \in @ THEN @ \ {lineId} ELSE @ \cup {lineId}
                               ELSE {lineId}]
                        /\ draggingLineId' = [draggingLineId EXCEPT ![c] = lineId]
                        /\ dragOffset' = [dragOffset EXCEPT ![c] =
                               Pt(e.x - line[1].x, e.y - line[1].y)]
                   ELSE UNCHANGED <<selectedLineIds, draggingLineId, dragOffset>>
                /\ UNCHANGED activeLineId
           ELSE /\ activeLineId' = [activeLineId EXCEPT ![c] = IF own THEN lineId ELSE @]
                /\ UNCHANGED <<selectedLineIds, draggingLineId, dragOffset>>
        /\ UNCHANGED <<netVars, hookVars, targetPos, mode, idCtr, born>>

\* handleLineMouseDown on a rendered line; the pointer is where the last
\* mousemove left it
LineMouseDown(c, lineId, shiftKey) ==
    LET line == FindLine(lines[c], lineId)
        own == line # <<>> /\ line[1].userId = UserIdOf(c)
        e == targetPos[c]
    IN  /\ lineId \in LineIds(lines[c])
        /\ Emit(c, "linedown", <<>>)
        /\ IF mode[c] = NAVIGATION
           THEN /\ selectedLineIds' = [selectedLineIds EXCEPT ![c] =
                       IF shiftKey
                       THEN IF lineId \in @ THEN @ \ {lineId} ELSE @ \cup {lineId}
                       ELSE {lineId}]
                /\ IF own
                   THEN /\ draggingLineId' = [draggingLineId EXCEPT ![c] = lineId]
                        /\ dragOffset' = [dragOffset EXCEPT ![c] =
                               Pt(e.x - line[1].x, e.y - line[1].y)]
                   ELSE UNCHANGED <<draggingLineId, dragOffset>>
                /\ UNCHANGED activeLineId
           ELSE /\ activeLineId' = [activeLineId EXCEPT ![c] = IF own THEN lineId ELSE @]
                /\ UNCHANGED <<selectedLineIds, draggingLineId, dragOffset>>
        /\ UNCHANGED <<netVars, hookVars, targetPos, mode, idCtr, born>>

\* handleStageMouseDown: a press on the empty canvas, at the pointer
StageMouseDown(c) ==
    /\ Emit(c, "stagedown", <<>>)
    /\ IF mode[c] = TYPING
       THEN /\ activeLineId' = [activeLineId EXCEPT ![c] = NoLine]
            /\ targetPos' = [targetPos EXCEPT ![c] = targetPos[c]]
            /\ UNCHANGED selectedLineIds
       ELSE /\ selectedLineIds' = [selectedLineIds EXCEPT ![c] = {}]
            /\ UNCHANGED <<activeLineId, targetPos>>
    /\ UNCHANGED <<netVars, hookVars, mode, draggingLineId, dragOffset, idCtr, born>>

\* handleStageMouseUp
StageMouseUp(c) ==
    /\ Emit(c, "mouseup", <<>>)
    /\ draggingLineId' = [draggingLineId EXCEPT ![c] = NoLine]
    /\ UNCHANGED <<netVars, hookVars, activeLineId, selectedLineIds, targetPos, mode, dragOffset, idCtr, born>>

\* Mutation of LineDoubleClick: the line becomes active in the current mode
LineDoubleClickKeepingMode(c, lineId) ==
    LET line == FindLine(lines[c], lineId)
        own == line # <<>> /\ line[1].userId = UserIdOf(c)
    IN  /\ lineId \in LineIds(lines[c])
        /\ Emit(c, "dblclick", <<>>)
        /\ IF own
           THEN /\ mode' = mode
                /\ activeLineId' = [activeLineId EXCEPT ![c] = lineId]
                /\ selectedLineIds' = [selectedLineIds EXCEPT ![c] = {}]
           ELSE UNCHANGED <<mode, activeLineId, selectedLineIds>>
        /\ UNCHANGED <<netVars, hookVars, targetPos, draggingLineId, dragOffset, idCtr, born>>

\* handleLineDoubleClick
LineDoubleClick(c, lineId) ==
    LET line == FindLine(lines[c], lineId)
        own == line # <<>> /\ line[1].userId = UserIdOf(c)
    IN  /\ lineId \in LineIds(lines[c])
        /\ Emit(c, "dblclick", <<>>)
        /\ IF own
           THEN /\ mode' = [mode EXCEPT ![c] = TYPING]
                /\ activeLineId' = [activeLineId EXCEPT ![c] = lineId]
                /\ selectedLineIds' = [selectedLineIds EXCEPT ![c] = {}]
           ELSE UNCHANGED <<mode, activeLineId, selectedLineIds>>
        /\ UNCHANGED <<netVars, hookVars, targetPos, draggingLineId, dragOffset, idCtr, born>>

\* Mutation of LineContextMenu: any line can be erased with a right-click
LineContextMenuAnyLine(c, lineId) ==
    LET newLines == SelectSeq(lines[c], LAMBDA l : l.id # lineId)
    IN  /\ lineId \in LineIds(lines[c])
        /\ lines' = [lines EXCEPT ![c] = newLines]
        /\ Emit(c, "contextmenu", SetLinesOut(c, newLines)
               \o <<[type |-> "deleteLines", lineIds |-> {lineId}]>>)
        /\ activeLineId' = [activeLineId EXCEPT ![c] = IF @ = lineId THEN NoLine ELSE @]
        /\ selectedLineIds' = [selectedLineIds EXCEPT ![c] = @ \ {lineId}]
        /\ UNCHANGED <<netVars, currentUser, remoteUsers, targetPos, mode, draggingLineId, dragOffset, idCtr, born>>

\* handleLineContextMenu: right-click to erase a line
LineContextMenu(c, lineId) ==
    LET line == FindLine(lines[c], lineId)
        own == line # <<>> /\ currentUser[c] # <<>> /\ line[1].userId = UserIdOf(c)
        newLines == SelectSeq(lines[c], LAMBDA l : l.id # lineId)
    IN  /\ lineId \in LineIds(lines[c])
        /\ IF own
           THEN /\ lines' = [lines EXCEPT ![c] = newLines]
                /\ Emit(c, "contextmenu", SetLinesOut(c, newLines)
                       \o <<[type |-> "deleteLines", lineIds |-> {lineId}]>>)
                /\ activeLineId' = [activeLineId EXCEPT ![c] = IF @ = lineId THEN NoLine ELSE @]
                /\ selectedLineIds' = [selectedLineIds EXCEPT ![c] = @ \ {lineId}]
           ELSE /\ Emit(c, "contextmenu", <<>>)
                /\ UNCHANGED <<lines, activeLineId, selectedLineIds>>
        /\ UNCHANGED <<netVars, currentUser, remoteUsers, targetPos, mode, draggingLineId, dragOffset, idCtr, born>>

\* Mutation of ClearMyWork: the page's whole replica is cleared
ClearMyWorkWholeReplica(c) ==
    /\ IF currentUser[c] = <<>>
       THEN /\ Emit(c, "clearmine", <<>>)
            /\ UNCHANGED <<lines, activeLineId, selectedLineIds>>
       ELSE LET userLineIds == {l.id : l \in {x \in Range(lines[c]) : x.userId = UserIdOf(c)}}
                remainingLines == <<>>
            IN  /\ IF userLineIds # {}
                   THEN /\ lines' = [lines EXCEPT ![c] = remainingLines]
                        /\ Emit(c, "clearmine", SetLinesOut(c, remainingLines)
                               \o <<[type |-> "deleteLines", lineIds |-> userLineIds]>>)
                   ELSE /\ UNCHANGED lines
                        /\ Emit(c, "clearmine", <<>>)
                /\ activeLineId' = [activeLineId EXCEPT ![c] = NoLine]
                /\ selectedLineIds' = [selectedLineIds EXCEPT ![c] = {}]
    /\ UNCHANGED <<netVars, currentUser, remoteUsers, targetPos, mode, draggingLineId, dragOffset, idCtr, born>>

\* handleClearMyWork
ClearMyWork(c) ==
    /\ IF currentUser[c] = <<>>
       THEN /\ Emit(c, "clearmine", <<>>)
            /\ UNCHANGED <<lines, activeLineId, selectedLineIds>>
       ELSE LET userLineIds == {l.id : l \in {x \in Range(lines[c]) : x.userId = UserIdOf(c)}}
                remainingLines == SelectSeq(lines[c], LAMBDA l : l.userId # UserIdOf(c))
            IN  /\ IF userLineIds # {}
                   THEN /\ lines' = [lines EXCEPT ![c] = remainingLines]
                        /\ Emit(c, "clearmine", SetLinesOut(c, remainingLines)
                               \o <<[type |-> "deleteLines", lineIds |-> userLineIds]>>)
                   ELSE /\ UNCHANGED lines
                        /\ Emit(c, "clearmine", <<>>)
                /\ activeLineId' = [activeLineId EXCEPT ![c] = NoLine]
                /\ selectedLineIds' = [selectedLineIds EXCEPT ![c] = {}]
    /\ UNCHANGED <<netVars, currentUser, remoteUsers, targetPos, mode, draggingLineId, dragOffset, idCtr, born>>

\* Mutation of ClearAll: only the page's own lines are named
ClearAllOwnLines(c) ==
    /\ LET allLineIds == {l.id : l \in {k \in Range(lines[c]) : k.userId = UserIdOf(c)}}
       IN  IF allLineIds # {}
           THEN /\ lines' = [lines EXCEPT ![c] = SelectSeq(@, LAMBDA l : l.id \notin allLineIds)]
                /\ Emit(c, "clearall", SetLinesOut(c, <<>>)
                       \o <<[type |-> "deleteLines", lineIds |-> allLineIds]>>)
           ELSE /\ UNCHANGED lines
                /\ Emit(c, "clearall", <<>>)
    /\ activeLineId' = [activeLineId EXCEPT ![c] = NoLine]
    /\ selectedLineIds' = [selectedLineIds EXCEPT ![c] = {}]
    /\ UNCHANGED <<netVars, currentUser, remoteUsers, targetPos, mode, draggingLineId, dragOffset, idCtr, born>>

\* handleClearAll
ClearAll(c) ==
    /\ LET allLineIds == LineIds(lines[c])
       IN  IF allLineIds # {}
           THEN /\ lines' = [lines EXCEPT ![c] = <<>>]
                /\ Emit(c, "clearall", SetLinesOut(c, <<>>)
                       \o <<[type |-> "deleteLines", lineIds |-> allLineIds]>>)
           ELSE /\ UNCHANGED lines
                /\ Emit(c, "clearall", <<>>)
    /\ activeLineId' = [activeLineId EXCEPT ![c] = NoLine]
    /\ selectedLineIds' = [selectedLineIds EXCEPT ![c] = {}]
    /\ UNCHANGED <<netVars, currentUser, remoteUsers, targetPos, mode, draggingLineId, dragOffset, idCtr, born>>

\* ------------------------------------------------------- the specification

\* The pages P are loaded and no socket is open yet.
StartWith(P) ==
    /\ srvUsers = <<>>
    /\ srvLines = <<>>
    /\ conns = {}
    /\ status = [c \in P |-> "idle"]
    /\ currentUser = [c \in P |-> <<>>]
    /\ remoteUsers = [c \in P |-> <<>>]
    /\ lines = [c \in P |-> <<>>]
    /\ activeLineId = [c \in P |-> NoLine]
    /\ selectedLineIds = [c \in P |-> {}]
    /\ targetPos = [c \in P |-> WindowCentre]
    /\ mode = [c \in P |-> TYPING]
    /\ draggingLineId = [c \in P |-> NoLine]
    /\ dragOffset = [c \in P |-> Pt(0, 0)]
    /\ idCtr = [c \in P |-> 0]
    /\ toServer = [c \in P |-> <<>>]
    /\ toClient = [c \in P |-> <<>>]
    /\ nInputs = 0
    /\ ev = [client |-> "", kind |-> "none", sent |-> <<>>, quiet |-> TRUE, orphans |-> {}]
    /\ born = <<>>
    /\ joinSnap = [c \in P |-> <<>>]

\* Every page is loaded and no socket is open yet.
Start == StartWith(Clients)

\* The pages load; the first page's user acts, the others watch.
Init ==
    /\ Start
    /\ actors = {ClientNames[1]}
    /\ budget = MaxInputs

\* A page's socket opens and the join is processed
Joining ==
    \/ \E c \in Clients : OnConnect(c)
    \/ \E c \in Clients : ClientInit(c)
    \/ \E c \in Clients : ClientUserJoined(c)

\* What the server and the hook do with the messages of connected pages
Replication ==
    \/ \E c \in Clients : OnClose(c)
    \/ \E c \in Clients : OnMessageCursor(c)
    \/ \E c \in Clients : OnMessageAddLine(c)
    \/ \E c \in Clients : OnMessageUpdateLine(c)
    \/ \E c \in Clients : OnMessageDeleteLines(c)
    \/ \E c \in Clients : OnMessageLines(c)
    \/ \E c \in Clients : ClientUserLeft(c)
    \/ \E c \in Clients : ClientCursor(c)
    \/ \E c \in Clients : ClientSync(c)
    \/ \E c \in Clients : ClientAddLine(c)
    \/ \E c \in Clients : ClientUpdateLine(c)
    \/ \E c \in Clients : ClientDeleteLines(c)

Inputs ==
    \/ \E c \in Clients : SocketClose(c)
    \/ \E c \in Clients : KeyEscape(c)
    \/ \E c \in Clients, key \in {"Backspace", "Delete"} : KeyDelete(c, key)
    \/ \E c \in Clients : KeyEnter(c)
    \/ \E c \in Clients, key \in Keys : KeyChar(c, key)
    \/ \E c \in Clients, text \in PasteTexts : Paste(c, text)
    \/ \E c \in Clients, p \in Targets : MouseMove(c, p)
    \/ \E c \in Clients : \E lineId \in LineIds(lines[c]), shiftKey \in BOOLEAN : LineMouseDown(c, lineId, shiftKey)
    \/ \E c \in Clients : StageMouseDown(c)
    \/ \E c \in Clients : StageMouseUp(c)
    \/ \E c \in Clients : \E lineId \in LineIds(lines[c]) : LineDoubleClick(c, lineId)
    \/ \E c \in Clients : \E lineId \in LineIds(lines[c]) : LineContextMenu(c, lineId)
    \/ \E c \in Clients : ClearMyWork(c)
    \/ \E c \in Clients : ClearAll(c)

Next == Joining \/ Replication \/ Inputs

Spec == Init /\ [][Next]_vars

\* ------------------------------------------------ scenario: everyone joined

\* The user onConnect makes for the i-th page to join an otherwise quiet room
\* when randomChoice takes the first unused entry of each palette.
JoinedUser(i) ==
    [id |-> ClientNames[i], color |-> COLORS[i], fontSize |-> FONT_SIZES[i],
     fontFamily |-> FONT_FAMILIES[i], cursor |-> Pt(0, 0)]

JoinedUsers(n) == [u \in {ClientNames[i] : i \in 1..n} |->
                      JoinedUser(CHOOSE i \in 1..n : ClientNames[i] = u)]

ClientIndex(c) == CHOOSE i \in 1..NClients : ClientNames[i] = c

\* The pages have joined one after the other, every init and userJoined has
\* been processed, nobody has typed or moved the pointer yet.
\* Spec reaches this state before any user event.
Joined ==
    /\ srvUsers = JoinedUsers(NClients)
    /\ srvLines = <<>>
    /\ conns = Clients
    /\ status = [c \in Clients |-> "open"]
    /\ currentUser = [c \in Clients |-> <<JoinedUser(ClientIndex(c))>>]
    /\ remoteUsers = [c \in Clients |-> [u \in Clients \ {c} |-> JoinedUser(ClientIndex(u))]]
    /\ lines = [c \in Clients |-> <<>>]
    /\ activeLineId = [c \in Clients |-> NoLine]
    /\ selectedLineIds = [c \in Clients |-> {}]
    /\ targetPos = [c \in Clients |-> WindowCentre]
    /\ mode = [c \in Clients |-> TYPING]
    /\ draggingLineId = [c \in Clients |-> NoLine]
    /\ dragOffset = [c \in Clients |-> Pt(0, 0)]
    /\ idCtr = [c \in Clients |-> 0]
    /\ toServer = [c \in Clients |-> <<>>]
    /\ toClient = [c \in Clients |-> <<>>]
    /\ nInputs = 0
    /\ ev = [client |-> "", kind |-> "none", sent |-> <<>>, quiet |-> TRUE, orphans |-> {}]
    /\ born = <<>>
    /\ joinSnap = [c \in Clients |->
           <<[users |-> JoinedUsers(ClientIndex(c)), lines |-> <<>>]>>]

\* What the server and the hook do with the messages typing sends
Relay ==
    \/ \E c \in Clients : OnMessageCursor(c)
    \/ \E c \in Clients : OnMessageAddLine(c)
    \/ \E c \in Clients : OnMessageUpdateLine(c)
    \/ \E c \in Clients : OnMessageDeleteLines(c)
    \/ \E c \in Clients : OnMessageLines(c)
    \/ \E c \in Clients : ClientCursor(c)
    \/ \E c \in Clients : ClientSync(c)
    \/ \E c \in Clients : ClientAddLine(c)
    \/ \E c \in Clients : ClientUpdateLine(c)
    \/ \E c \in Clients : ClientDeleteLines(c)

\* Keys and pointer moves in TYPING mode
TypingInputs ==
    \/ \E c \in Clients : KeyEnter(c)
    \/ \E c \in Clients, key \in {"Backspace", "Delete"} : KeyDelete(c, key)
    \/ \E c \in Clients, key \in Keys : KeyChar(c, key)
    \/ \E c \in Clients, p \in Targets : MouseMove(c, p)

InitTyping ==
    /\ Joined
    /\ actors = Clients
    /\ budget = PairInputs

NextTyping == Relay \/ TypingInputs

\* Everyone has joined and every user types and moves the pointer.
SpecTyping == InitTyping /\ [][NextTyping]_vars

NextJoined == Replication \/ Inputs

InitSolo ==
    /\ Joined
    /\ actors = {ClientNames[1]}
    /\ budget = SoloInputs

\* Everyone has joined, the first page's user acts, the others watch.
SpecSolo == InitSolo /\ [][NextJoined]_vars

\* ------------------------------------------------ scenario: joins and leaves

RosterPages == {ClientNames[i] : i \in 1..MaxPages}

\* Pages join and leave; nobody types
RosterNext ==
    \E c \in RosterPages :
        \/ OnConnect(c)
        \/ ClientInit(c)
        \/ ClientUserJoined(c)
        \/ SocketClose(c)
        \/ OnClose(c)
        \/ ClientUserLeft(c)

InitRoster ==
    /\ StartWith(RosterPages)
    /\ actors = RosterPages
    /\ budget = RosterInputs

SpecRoster == InitRoster /\ [][RosterNext]_vars

\* ------------------------------------------- scenario: malformed payloads

\* A payload that JSON.parse rejects, or whose type is unknown, or that lacks
\* the field its type requires, is the message [type |-> "malformed", shape
\* |-> ...]; a missing field reads as undefined.
UndefinedValue == [undefined |-> TRUE]

MalformedShapes == {"unparseable", "unknownType", "addLine", "updateLine", "deleteLines", "cursor"}

\* this.state.lines holds an undefined element: reading its id or userId
\* throws a TypeError
Poisoned == \E i \in 1..Len(srvLines) : srvLines[i] = UndefinedValue

\* Some client of the room sends a malformed payload on connection c.
SendMalformed(c, shape) ==
    /\ status[c] = "open"
    /\ c \in actors
    /\ nInputs < budget
    /\ nInputs' = nInputs + 1
    /\ toServer' = [toServer EXCEPT ![c] = Append(@, [type |-> "malformed", shape |-> shape])]
    /\ ev' = [client |-> c, kind |-> "malformed",
              sent |-> <<[type |-> "malformed", shape |-> shape]>>,
              quiet |-> Quiescent, orphans |-> Orphans]
    /\ UNCHANGED <<serverVars, status, toClient, hookVars, uiVars, idCtr, born, joinSnap, actors, budget>>

\* onMessage for a malformed payload.  JSON.parse throws on an unparseable
\* one and the switch has no case for an unknown type.  'addLine' pushes
\* data.line, undefined, and relays {type:'addLine'}.  'updateLine' and
\* 'deleteLines' read data.line.id and data.lineIds.includes inside the
\* callback of findIndex and filter: with an empty document the callback never
\* runs and the message is relayed, otherwise the TypeError is caught.
\* 'cursor' stores data.cursor, undefined, and relays it.
OnMessageMalformed(c) ==
    /\ ServerHead(c, "malformed")
    /\ ServerTail(c)
    /\ LET shape == Head(toServer[c]).shape
           relay == [type |-> "malformed", shape |-> shape, userId |-> c]
       IN  CASE shape = "addLine" ->
                   /\ srvLines' = Append(srvLines, UndefinedValue)
                   /\ toClient' = Broadcast(toClient, relay, {c})
                   /\ UNCHANGED srvUsers
             [] shape \in {"updateLine", "deleteLines"} /\ srvLines = <<>> ->
                   /\ toClient' = Broadcast(toClient, relay, {c})
                   /\ UNCHANGED <<srvLines, srvUsers>>
             [] shape = "cursor" ->
                   /\ srvUsers' = IF c \in DOMAIN srvUsers
                                  THEN [srvUsers EXCEPT ![c].cursor = UndefinedValue]
                                  ELSE srvUsers
                   /\ toClient' = Broadcast(toClient, relay, {c})
                   /\ UNCHANGED srvLines
             [] OTHER -> UNCHANGED <<srvLines, srvUsers, toClient>>
    /\ UNCHANGED <<conns, clientVars>>

\* onMessage, case 'lines', while the document has no undefined element
OnMessageLinesSound(c) == ~Poisoned /\ OnMessageLines(c)

\* onMessage, case 'lines', while the document has an undefined element: the
\* filter's callback reads l.userId of undefined, the TypeError is caught and
\* logged, nothing is stored or sent
OnMessageLinesThrows(c) ==
    /\ Poisoned
    /\ ServerHead(c, "lines")
    /\ ServerTail(c)
    /\ UNCHANGED <<serverVars, toClient, clientVars>>

\* The page's render throws (no error boundary): React unmounts the tree and
\* the hook's cleanup closes the socket.
PageCrash(c) ==
    /\ status' = [status EXCEPT ![c] = "closed"]
    /\ toClient' = [toClient EXCEPT ![c] = <<>>]
    /\ toServer' = [toServer EXCEPT ![c] = Append(@, [type |-> "close"])]

\* The hook's handler for a relayed malformed message.  {type:'addLine'}
\* appends undefined to lines and the render reads line.id of it;
\* {type:'cursor', userId} sets the user's cursor to undefined and
\* RemoteCursors reads cursor.x of it; {type:'updateLine'} and
\* {type:'deleteLines'} read message.line.id and message.lineIds.includes in
\* the callback of map and filter, which runs when the replica has a line.
ClientMalformed(c) ==
    /\ ClientHead(c, "malformed")
    /\ LET message == Head(toClient[c])
           throws == CASE message.shape = "addLine" -> TRUE
                       [] message.shape = "cursor" -> message.userId \in DOMAIN remoteUsers[c]
                       [] OTHER -> lines[c] # <<>>
       IN  IF throws
           THEN PageCrash(c)
           ELSE ClientTail(c) /\ UNCHANGED <<status, toServer>>
    /\ UNCHANGED <<serverVars, hookVars, uiVars, idCtr, nInputs, ev, born, joinSnap, actors, budget>>

\* A printable key on a page that is still mounted
KeyCharMounted(c, key) == status[c] = "open" /\ KeyChar(c, key)

MalformedNext ==
    \E c \in Clients :
        \/ OnClose(c)
        \/ OnMessageAddLine(c)
        \/ OnMessageLinesSound(c)
        \/ OnMessageLinesThrows(c)
        \/ OnMessageMalformed(c)
        \/ ClientUserLeft(c)
        \/ ClientSync(c)
        \/ ClientAddLine(c)
        \/ ClientMalformed(c)
        \/ \E key \in Keys : KeyCharMounted(c, key)
        \/ \E shape \in MalformedShapes : SendMalformed(c, shape)

InitMalformed ==
    /\ Joined
    /\ actors = Clients
    /\ budget = MalformedInputs

\* Everyone has joined; every connection carries typing and malformed
\* payloads.
SpecMalformed == InitMalformed /\ [][MalformedNext]_vars

\* --------------------------- scenario: a participant leaves, another clears

\* What typing, leaving and clearing put on the wire, and its processing
LeavingNext ==
    \E c \in Clients :
        \/ OnClose(c)
        \/ OnMessageAddLine(c)
        \/ OnMessageDeleteLines(c)
        \/ OnMessageLines(c)
        \/ ClientUserLeft(c)
        \/ ClientSync(c)
        \/ ClientAddLine(c)
        \/ ClientDeleteLines(c)
        \/ SocketClose(c)
        \/ \E key \in Keys : KeyChar(c, key)
        \/ ClearAll(c)

InitLeaving ==
    /\ Joined
    /\ actors = Clients
    /\ budget = LeaveInputs

\* Everyone has joined; every user may type, close the page or clear all.
SpecLeaving == InitLeaving /\ [][LeavingNext]_vars

\* ------------------------------- scenario B: three glyphs, then Backspace

\* What the first page's user does, in order: three keys with the pointer
\* moved LETTER_SPACING away from the tail before the second and the third,
\* then Backspace three times
ScriptB == <<"char", "right", "char", "left", "char", "Backspace", "Backspace", "Backspace">>

ScenarioBStep ==
    LET P1 == ClientNames[1]
        k == nInputs + 1
    IN  /\ k <= Len(ScriptB)
        /\ \/ ScriptB[k] = "char" /\ KeyChar(P1, "a")
           \/ ScriptB[k] = "right" /\ MouseMove(P1, Pt(24, 12))
           \/ ScriptB[k] = "left" /\ MouseMove(P1, Pt(12, 12))
           \/ ScriptB[k] = "Backspace" /\ KeyDelete(P1, "Backspace")

InitScenarioB ==
    /\ Joined
    /\ actors = {ClientNames[1]}
    /\ budget = Len(ScriptB)

NextScenarioB == Relay \/ ScenarioBStep

\* Everyone has joined; the first page's user follows ScriptB while the
\* server and the other pages process what that sends.
SpecScenarioB == InitScenarioB /\ [][NextScenarioB]_vars

\* ------------------------------------------- scenario: two users have typed

\* The line the i-th page's user makes by typing "a" as the first thing, with
\* the pointer where it was on loading
TypedLine(i) ==
    [id |-> <<ClientNames[i], 1>>,
     chars |-> <<[id |-> <<ClientNames[i], 2>>, value |-> "a", x |-> 0, y |-> 0]>>,
     x |-> WindowCentre.x, y |-> WindowCentre.y,
     userId |-> ClientNames[i], color |-> COLORS[i], fontSize |-> FONT_SIZES[i],
     fontFamily |-> FONT_FAMILIES[i]]

\* From Joined: the first user types "a" and what that sends is processed by
\* the server and by the other pages, then the second user does the same.
\* SpecTyping reaches this state with two keys.
Typed ==
    /\ srvUsers = JoinedUsers(NClients)
    /\ srvLines = <<TypedLine(1), TypedLine(1), TypedLine(2), TypedLine(2)>>
    /\ conns = Clients
    /\ status = [c \in Clients |-> "open"]
    /\ currentUser = [c \in Clients |-> <<JoinedUser(ClientIndex(c))>>]
    /\ remoteUsers = [c \in Clients |-> [u \in Clients \ {c} |-> JoinedUser(ClientIndex(u))]]
    /\ lines = [c \in Clients |->
           IF c = ClientNames[2]
           THEN <<TypedLine(1), TypedLine(1), TypedLine(2)>>
           ELSE <<TypedLine(1), TypedLine(1), TypedLine(2), TypedLine(2)>>]
    /\ activeLineId = [c \in Clients |->
           IF ClientIndex(c) <= 2 THEN <<c, 1>> ELSE NoLine]
    /\ selectedLineIds = [c \in Clients |-> {}]
    /\ targetPos = [c \in Clients |-> WindowCentre]
    /\ mode = [c \in Clients |-> TYPING]
    /\ draggingLineId = [c \in Clients |-> NoLine]
    /\ dragOffset = [c \in Clients |-> Pt(0, 0)]
    /\ idCtr = [c \in Clients |-> IF ClientIndex(c) <= 2 THEN 2 ELSE 0]
    /\ toServer = [c \in Clients |-> <<>>]
    /\ toClient = [c \in Clients |-> <<>>]
    /\ nInputs = 2
    /\ ev = [client |-> ClientNames[2], kind |-> "char",
             sent |-> <<[type |-> "lines", lines |-> <<TypedLine(2)>>],
                        [type |-> "addLine", line |-> TypedLine(2)]>>,
             quiet |-> TRUE, orphans |-> {}]
    /\ born = [id \in {<<ClientNames[1], 1>>, <<ClientNames[2], 1>>} |->
                  Birth(TypedLine(ClientIndex(id[1])))]
    /\ joinSnap = [c \in Clients |->
           <<[users |-> JoinedUsers(ClientIndex(c)), lines |-> <<>>]>>]

InitShared ==
    /\ Typed
    /\ actors = Clients
    /\ budget = 2 + SharedInputs

\* Two users have typed a line each and every user acts.
SpecShared == InitShared /\ [][NextJoined]_vars

\* ---------------------- scenario C: pressing and dragging another's line

\* What the second page's user does, in order, from Typed: Escape to
\* NAVIGATION mode, a press on the first user's line, pointer moves with the
\* button held, the release, one more pointer move
ScriptC == <<"Escape", "press", "move", "move", "release", "move">>

ScenarioCStep ==
    LET P1 == ClientNames[1]
        P2 == ClientNames[2]
        k == nInputs - 2 + 1
    IN  /\ k <= Len(ScriptC)
        /\ \/ ScriptC[k] = "Escape" /\ KeyEscape(P2)
           \/ ScriptC[k] = "press" /\ \E shiftKey \in BOOLEAN : LineMouseDown(P2, <<P1, 1>>, shiftKey)
           \/ ScriptC[k] = "move" /\ \E p \in Targets : MouseMove(P2, p)
           \/ ScriptC[k] = "release" /\ StageMouseUp(P2)

InitScenarioC ==
    /\ Typed
    /\ actors = {ClientNames[2]}
    /\ budget = 2 + Len(ScriptC)

\* Only cursor messages are sent in scenario C
NextScenarioC ==
    \/ \E c \in Clients : OnMessageCursor(c)
    \/ \E c \in Clients : ClientCursor(c)
    \/ ScenarioCStep

\* Two users have typed a line each; the second user follows ScriptC while
\* the server and the first page process what that sends.
SpecScenarioC == InitScenarioC /\ [][NextScenarioC]_vars

\* ------------------------------------------ scenario: dragging an own line

\* What the first page's user does, in order, from Typed: Escape to
\* NAVIGATION mode, a pointer move, a press on the own line, two pointer moves
\* with the button held, the release, one more pointer move
ScriptDrag == <<"Escape", "move", "press", "move", "move", "release", "move">>

DragStep ==
    LET P1 == ClientNames[1]
        k == nInputs - 2 + 1
    IN  /\ k <= Len(ScriptDrag)
        /\ \/ ScriptDrag[k] = "Escape" /\ KeyEscape(P1)
           \/ ScriptDrag[k] = "press" /\ \E shiftKey \in BOOLEAN : LineMouseDown(P1, <<P1, 1>>, shiftKey)
           \/ ScriptDrag[k] = "move" /\ \E p \in Targets : MouseMove(P1, p)
           \/ ScriptDrag[k] = "release" /\ StageMouseUp(P1)

InitDrag ==
    /\ Typed
    /\ actors = {ClientNames[1]}
    /\ budget = 2 + Len(ScriptDrag)

\* A drag sends 'lines', updateLine and cursor messages
NextDrag ==
    \/ \E c \in Clients : OnMessageCursor(c)
    \/ \E c \in Clients : OnMessageUpdateLine(c)
    \/ \E c \in Clients : OnMessageLines(c)
    \/ \E c \in Clients : ClientCursor(c)
    \/ \E c \in Clients : ClientSync(c)
    \/ \E c \in Clients : ClientUpdateLine(c)
    \/ DragStep

\* Two users have typed a line each; the first user follows ScriptDrag while
\* the server and the other page process what that sends.
SpecDrag == InitDrag /\ [][NextDrag]_vars

\* ----------------------------- scenario: arrow keys (the canvas with them)

\* const ARROW_SPEED = 20
ARROW_SPEED == 20

ArrowKeys == {"ArrowUp", "ArrowDown", "ArrowLeft", "ArrowRight"}

\* handleKeyDown of the canvas with arrow keys, e.key an arrow key: in TYPING
\* mode the target moves by ARROW_SPEED and sendCursor(newPos) is called from
\* the state updater; in NAVIGATION mode the handler returns before
ArrowKey(c, key) ==
    LET move == Pt(IF key = "ArrowLeft" THEN -ARROW_SPEED
                   ELSE IF key = "ArrowRight" THEN ARROW_SPEED ELSE 0,
                   IF key = "ArrowUp" THEN -ARROW_SPEED
                   ELSE IF key = "ArrowDown" THEN ARROW_SPEED ELSE 0)
        newPos == Pt(targetPos[c].x + move.x, targetPos[c].y + move.y)
    IN  /\ IF mode[c] = TYPING
           THEN /\ Emit(c, "arrow", <<[type |-> "cursor", cursor |-> newPos]>>)
                /\ targetPos' = [targetPos EXCEPT ![c] = newPos]
           ELSE /\ Emit(c, "arrow", <<>>)
                /\ UNCHANGED targetPos
        /\ UNCHANGED <<netVars, hookVars, activeLineId, selectedLineIds, mode, draggingLineId, dragOffset, idCtr, born>>

\* handleStageMouseDown with the pointer at e = (clientX, clientY)
StageMouseDownAt(c, e) ==
    /\ Emit(c, "stagedown", <<>>)
    /\ IF mode[c] = TYPING
       THEN /\ activeLineId' = [activeLineId EXCEPT ![c] = NoLine]
            /\ targetPos' = [targetPos EXCEPT ![c] = e]
            /\ UNCHANGED selectedLineIds
       ELSE /\ selectedLineIds' = [selectedLineIds EXCEPT ![c] = {}]
            /\ UNCHANGED <<activeLineId, targetPos>>
    /\ UNCHANGED <<netVars, hookVars, mode, draggingLineId, dragOffset, idCtr, born>>

\* Where the first user's pointer is moved to, and rests
PointerRest == Pt(24, 12)

\* What the first page's user does, in order: moves the pointer to
\* PointerRest, presses arrow keys, clicks the empty canvas where the pointer
\* is, and the same again in NAVIGATION mode
ScriptArrows == <<"move", "arrow", "arrow", "click", "Escape", "arrow", "click">>

ArrowsStep ==
    LET P1 == ClientNames[1]
        k == nInputs + 1
    IN  /\ k <= Len(ScriptArrows)
        /\ \/ ScriptArrows[k] = "move" /\ MouseMove(P1, PointerRest)
           \/ ScriptArrows[k] = "arrow" /\ \E key \in ArrowKeys : ArrowKey(P1, key)
           \/ ScriptArrows[k] = "click" /\ StageMouseDownAt(P1, PointerRest)
           \/ ScriptArrows[k] = "Escape" /\ KeyEscape(P1)

InitArrows ==
    /\ Joined
    /\ actors = {ClientNames[1]}
    /\ budget = Len(ScriptArrows)

\* Only cursor messages are sent
NextArrows ==
    \/ \E c \in Clients : OnMessageCursor(c)
    \/ \E c \in Clients : ClientCursor(c)
    \/ ArrowsStep

\* Everyone has joined; the first user follows ScriptArrows while the server
\* and the other page process the cursor messages.
SpecArrows == InitArrows /\ [][NextArrows]_vars

\* ------------------------------------- scenario: placement in IEEE doubles

\* A double near a whole pixel: px + tiny * 10^-18
Nm(px, tiny) == [px |-> px, tiny |-> tiny]

Zero == Nm(0, 0)

\* LETTER_SPACING * Math.cos(Math.PI / 2) = 7.347880794884119e-16, in 10^-18
CosHalfPiSpacing == 735

\* LETTER_SPACING * Math.sin(Math.PI) = 1.4695761589768238e-15, in 10^-18
SinPiSpacing == 1470

\* The gap between neighbouring doubles of magnitude a, 1 <= a < 128, in
\* 10^-18: 2^(floor(log2 a) - 52)
Ulp(a) ==
    IF a < 2 THEN 222 ELSE IF a < 4 THEN 444 ELSE IF a < 8 THEN 888
    ELSE IF a < 16 THEN 1776 ELSE IF a < 32 THEN 3553
    ELSE IF a < 64 THEN 7105 ELSE 14211

\* t to the nearest multiple of u
RoundTo(u, t) == ((2 * t + u) \div (2 * u)) * u

\* a + b in doubles: exact near zero, else to the nearest double
FloatAdd(a, b) ==
    LET px == a.px + b.px
        t == a.tiny + b.tiny
    IN  IF px = 0 THEN Nm(0, t) ELSE Nm(px, RoundTo(Ulp(Abs(px)), t))

FloatSub(a, b) == FloatAdd(a, Nm(-b.px, -b.tiny))

\* The vector (dx, dy) lies on an axis and is whole pixels long
OnAxis(dx, dy) ==
    \/ dy = Zero /\ dx.tiny = 0 /\ dx.px # 0
    \/ dx = Zero /\ dy.tiny = 0 /\ dy.px # 0

\* Mutation of AxisCos: the step is one pixel longer
AxisCosLong(dx, dy) ==
    IF dy = Zero
    THEN IF dx.px > 0 THEN Nm(LETTER_SPACING + 1, 0) ELSE Nm(-LETTER_SPACING - 1, 0)
    ELSE Nm(0, CosHalfPiSpacing)

\* Math.cos(Math.atan2(dy, dx)) * LETTER_SPACING for (dx, dy) on an axis:
\* cos(0) = 1, cos(pi) = -1, cos(pi/2) = cos(-pi/2) = 6.123233995736766e-17
AxisCos(dx, dy) ==
    IF dy = Zero
    THEN IF dx.px > 0 THEN Nm(LETTER_SPACING, 0) ELSE Nm(-LETTER_SPACING, 0)
    ELSE Nm(0, CosHalfPiSpacing)

\* Math.sin(Math.atan2(dy, dx)) * LETTER_SPACING for (dx, dy) on an axis:
\* sin(0) = 0, sin(pi) = 1.2246467991473532e-16, sin(pi/2) = 1, sin(-pi/2) = -1
AxisSin(dx, dy) ==
    IF dy = Zero
    THEN IF dx.px > 0 THEN Zero ELSE Nm(0, SinPiSpacing)
    ELSE IF dy.px > 0 THEN Nm(LETTER_SPACING, 0) ELSE Nm(-LETTER_SPACING, 0)

\* The tail of page c's own active line, <<>> if there is none: what
\* addCharToCanvas appends to
ActiveTail(c) ==
    LET found == FindLine(lines[c], activeLineId[c])
    IN  IF found # <<>> /\ found[1].userId = UserIdOf(c) /\ Len(found[1].chars) > 0
        THEN <<found[1].chars[Len(found[1].chars)]>> ELSE <<>>

\* dx, dy of addCharToCanvas for page c's own active line
ToTarget(c) ==
    LET line == FindLine(lines[c], activeLineId[c])[1]
        last == ActiveTail(c)[1]
        globalHeadX == FloatAdd(Nm(line.x, 0), last.x)
        globalHeadY == FloatAdd(Nm(line.y, 0), last.y)
    IN  [dx |-> FloatSub(Nm(targetPos[c].x, 0), globalHeadX),
         dy |-> FloatSub(Nm(targetPos[c].y, 0), globalHeadY)]

\* addCharToCanvas with glyph offsets in doubles, for a key typed with no own
\* active line or with the target on an axis through the tail
addCharToCanvasOnAxis(c, charValue, n) ==
    IF ActiveTail(c) = <<>>
    THEN LET newLine == createLine(c, targetPos[c].x, targetPos[c].y, n)
             finalChar == [id |-> <<c, n + 2>>, value |-> charValue, x |-> Zero, y |-> Zero]
             lineWithChar == [newLine EXCEPT !.chars = <<finalChar>>]
             newLines == Append(lines[c], lineWithChar)
         IN  [newActiveId |-> newLine.id, set |-> TRUE, newLines |-> newLines,
              out |-> SetLinesOut(c, newLines) \o <<[type |-> "addLine", line |-> lineWithChar]>>,
              used |-> 2, created |-> <<lineWithChar>>]
    ELSE LET currentLine == FindLine(lines[c], activeLineId[c])[1]
             last == ActiveTail(c)[1]
             v == ToTarget(c)
         IN  IF Abs(v.dx.px) + Abs(v.dy.px) < LETTER_SPACING
             THEN [newActiveId |-> activeLineId[c], set |-> FALSE, newLines |-> lines[c],
                   out |-> <<>>, used |-> 0, created |-> <<>>]
             ELSE LET finalChar == [id |-> <<c, n + 1>>, value |-> charValue,
                                    x |-> FloatAdd(last.x, AxisCos(v.dx, v.dy)),
                                    y |-> FloatAdd(last.y, AxisSin(v.dx, v.dy))]
                      updatedLine == [currentLine EXCEPT !.chars = Append(@, finalChar)]
                      newLines == ReplaceLine(lines[c], activeLineId[c], updatedLine)
                  IN  [newActiveId |-> activeLineId[c], set |-> TRUE, newLines |-> newLines,
                       out |-> SetLinesOut(c, newLines)
                               \o <<[type |-> "updateLine", line |-> updatedLine]>>,
                       used |-> 1, created |-> <<>>]

\* handleKeyDown, a printable key in TYPING mode, glyph offsets in doubles
KeyCharOnAxis(c, key) ==
    /\ mode[c] = TYPING
    /\ ActiveTail(c) # <<>> => OnAxis(ToTarget(c).dx, ToTarget(c).dy)
    /\ LET result == addCharToCanvasOnAxis(c, key, idCtr[c])
       IN  /\ Emit(c, "char", result.out)
           /\ lines' = [lines EXCEPT ![c] = IF result.set THEN result.newLines ELSE @]
           /\ activeLineId' = [activeLineId EXCEPT ![c] =
                  IF result.newActiveId # @ THEN result.newActiveId ELSE @]
           /\ idCtr' = [idCtr EXCEPT ![c] = @ + result.used]
           /\ born' = Register(Range(result.created))
    /\ UNCHANGED <<netVars, currentUser, remoteUsers, selectedLineIds, targetPos, mode, draggingLineId, dragOffset>>

\* Where the pointer goes in the placement scenario
AxisTargets == {Pt(24, 24), Pt(48, 24), Pt(24, 48), Pt(0, 24), Pt(24, 0)}

PlacementInputs == 6

InitPlacement ==
    /\ Joined
    /\ actors = {ClientNames[1]}
    /\ budget = PlacementInputs

NextPlacement ==
    \/ \E p \in AxisTargets : MouseMove(ClientNames[1], p)
    \/ \E key \in Keys : KeyCharOnAxis(ClientNames[1], key)

\* Everyone has joined; the first user moves the pointer and types with the
\* target on an axis through the tail; nothing is delivered meanwhile.
SpecPlacement == InitPlacement /\ [][NextPlacement]_vars

\* -------------------------------------------------------------- properties

\* Every copy of the document: the server's and each page's replica
Documents == {srvLines} \cup {lines[c] : c \in Clients}


\* Every page is connected and has processed its init
AllConnected == \A c \in Clients : status[c] = "open" /\ c \in conns /\ currentUser[c] # <<>>

\* The types of the messages the last user event sent
SentTypes == MsgTypes(ev.sent)

HowMany(t, type) == Cardinality({i \in DOMAIN t : t[i] = type})

\* C1: with every page connected, once no message is in flight every replica
\* holds the same lines as the server's document.
C1_Converged ==
    (AllConnected /\ Quiescent) => \A c \in Clients : Range(lines[c]) = Range(srvLines)

\* C2: the step in which a page processes init leaves its replica equal to the
\* server's lines at the moment of the join and its roster (itself plus the
\* remote users) equal to the server's users at that moment, whatever they
\* held before.
C2_JoinSnapshot ==
    [][\A c \in Clients :
          (currentUser[c] = <<>> /\ currentUser'[c] # <<>>) =>
              LET self == currentUser'[c][1]
                  roster == [u \in DOMAIN remoteUsers'[c] \cup {self.id} |->
                                IF u = self.id THEN self ELSE remoteUsers'[c][u]]
              IN  /\ self.id \notin DOMAIN remoteUsers'[c]
                  /\ lines'[c] = joinSnap[c][1].lines
                  /\ roster = joinSnap[c][1].users]_vars

\* a page that had typed a line before its init has processed the init, which
\* replaced its replica, and a page has processed an init whose snapshot held
\* a line and two users
C2_Joined ==
    /\ \E c \in Clients :
           /\ currentUser[c] # <<>>
           /\ <<c, 1>> \in DOMAIN born
           /\ born[<<c, 1>>].userId = LocalUserId
           /\ lines[c] = joinSnap[c][1].lines
    /\ \E c \in Clients :
           /\ currentUser[c] # <<>>
           /\ joinSnap[c][1].lines # <<>>
           /\ Cardinality(DOMAIN joinSnap[c][1].users) = 2
           /\ lines[c] = joinSnap[c][1].lines
           /\ DOMAIN remoteUsers[c] \cup {c} = DOMAIN joinSnap[c][1].users

\* C3: the server's document and every replica hold at most one line per id.
C3_UniqueLineIds == \A d \in Documents : Cardinality(LineIds(d)) = Len(d)

KeyKinds == {"Escape", "Backspace", "Delete", "Enter", "char"}

PointerKinds == {"mousemove", "linedown", "stagedown", "mouseup", "dblclick", "contextmenu", "clearmine", "clearall"}

\* C4 as stated: a keystroke or pointer event sends at most one message.
C4_AtMostOneMessage == ev.kind \in KeyKinds \cup PointerKinds => Len(ev.sent) <= 1

\* C4: a keystroke or pointer event sends at most one addLine, updateLine or
\* deleteLines, preceded by a 'lines' resync whenever it sends one after init,
\* and a pointer move sends one cursor after them: at most two messages for a
\* keystroke, at most three for a pointer event.
C4_MessagesPerEvent ==
    ev.kind \in KeyKinds \cup PointerKinds =>
        LET t == SentTypes
            ops == HowMany(t, "addLine") + HowMany(t, "updateLine") + HowMany(t, "deleteLines")
        IN  /\ ops <= 1
            /\ HowMany(t, "lines") <= ops
            /\ HowMany(t, "lines") = 1 => t[1] = "lines"
            /\ HowMany(t, "cursor") <= 1
            /\ HowMany(t, "cursor") = 1 => ev.kind = "mousemove" /\ t[Len(t)] = "cursor"
            /\ Len(t) = ops + HowMany(t, "lines") + HowMany(t, "cursor")
            /\ ev.kind \in KeyKinds => Len(t) <= 2

\* a pointer move that drags a line has sent three messages
C4_DragSendsThree == ev.kind = "mousemove" /\ SentTypes = <<"lines", "updateLine", "cursor">>

\* C5: no line of the server's document or of a replica has an empty glyph
\* sequence.
C5_NoEmptyLines == \A d \in Documents : \A i \in 1..Len(d) : Len(d[i].chars) > 0

\* a line has lost its only glyph to Backspace and is gone everywhere
C5_LastGlyphRemoved ==
    /\ ev.kind = "Backspace"
    /\ HowMany(SentTypes, "deleteLines") = 1
    /\ born # <<>>
    /\ AllConnected
    /\ Quiescent
    /\ \A d \in Documents : d = <<>>

\* C6: the first glyph of every line, at the server and in every replica, has
\* offset (0,0).
C6_FirstGlyphAtOrigin ==
    \A d \in Documents : \A i \in 1..Len(d) :
        Len(d[i].chars) > 0 => d[i].chars[1].x = 0 /\ d[i].chars[1].y = 0

\* the server holds a line typed away from the window centre whose second
\* glyph is off the origin
C6_TwoGlyphsAwayFromCentre ==
    \E i \in 1..Len(srvLines) :
        /\ Len(srvLines[i].chars) >= 2
        /\ Pt(srvLines[i].x, srvLines[i].y) # WindowCentre
        /\ Pt(srvLines[i].chars[2].x, srvLines[i].chars[2].y) # Pt(0, 0)

\* C7: every copy of a line, at the server and in every replica, carries the
\* owner and the style the line was created with.
C7_OwnerAndStyleFixed ==
    \A d \in Documents : \A i \in 1..Len(d) :
        d[i].id \in DOMAIN born /\ Birth(d[i]) = born[d[i].id]

\* a line has been dragged away from where it was typed and the server and
\* another page hold it at its new place
C7_Relocated ==
    /\ ev.kind = "mousemove"
    /\ HowMany(SentTypes, "updateLine") = 1
    /\ \E i \in 1..Len(srvLines) : Pt(srvLines[i].x, srvLines[i].y) # WindowCentre
    /\ \E c \in Clients \ {ev.client} : \E i \in 1..Len(lines[c]) :
           Pt(lines[c][i].x, lines[c][i].y) # WindowCentre

\* C8: every updateLine a user event sends carries a line owned by the sender,
\* and typing, Backspace and pointer moves leave the lines of other owners
\* that the sender's replica held as they were.
C8_OwnerOnlyEdits ==
    [][nInputs' = nInputs + 1 =>
          LET c == ev'.client
          IN  /\ \A i \in 1..Len(ev'.sent) :
                     ev'.sent[i].type = "updateLine" => ev'.sent[i].line.userId = c
              /\ ev'.kind \in {"char", "paste", "Backspace", "mousemove"} =>
                     SelectSeq(lines'[c], LAMBDA l : l.userId # c /\ l.id \in LineIds(lines[c]))
                         = SelectSeq(lines[c], LAMBDA l : l.userId # c)]_vars

\* a user has appended a glyph to an own line while the replica held a line of
\* another owner
C8_AppendedBesideForeign ==
    /\ ev.kind = "char"
    /\ HowMany(SentTypes, "updateLine") = 1
    /\ \E l \in Range(lines[ev.client]) : l.userId # ev.client

\* the ids every deleteLines of the last user event names are lines created by
\* the sender
SentDeletesOwn ==
    \A i \in 1..Len(ev.sent) :
        ev.sent[i].type = "deleteLines" =>
            \A id \in ev.sent[i].lineIds : born[id].userId = ev.client

\* C9 as stated: every deleteLines a page sends names only lines the sender
\* owns.
C9_OwnerOnlyDeletes == SentDeletesOwn

\* C9: every deleteLines a page sends names only lines the sender owns, unless
\* it comes from "Clear all", which names every line of the replica.
C9_OwnerOnlyDeletesButClearAll == ev.kind # "clearall" => SentDeletesOwn

\* a user has deleted own lines while the replica held, and keeps, a line of
\* another owner
C9_DeletedBesideForeign ==
    /\ ev.kind \in {"clearmine", "contextmenu", "Backspace", "Delete"}
    /\ HowMany(SentTypes, "deleteLines") = 1
    /\ \E l \in Range(lines[ev.client]) : l.userId # ev.client

\* A printable key would land on page c's own active line, which has a glyph,
\* less than LETTER_SPACING from the line's tail
SkipCase(c) ==
    /\ mode[c] = TYPING
    /\ LET found == FindLine(lines[c], activeLineId[c])
       IN  /\ found # <<>>
           /\ found[1].userId = UserIdOf(c)
           /\ Len(found[1].chars) >= 1
           /\ LET last == found[1].chars[Len(found[1].chars)]
                  dx == targetPos[c].x - (found[1].x + last.x)
                  dy == targetPos[c].y - (found[1].y + last.y)
              IN  dx * dx + dy * dy < LETTER_SPACING * LETTER_SPACING

\* C10: a printable key typed onto an own active line with a glyph whose tail
\* is less than LETTER_SPACING from the target changes neither the replica nor
\* the active line id, creates no line and sends nothing.
C10_SkipChangesNothing ==
    [][\A c \in Clients :
          (nInputs' = nInputs + 1 /\ ev'.kind = "char" /\ ev'.client = c /\ SkipCase(c)) =>
              /\ lines' = lines
              /\ activeLineId' = activeLineId
              /\ idCtr' = idCtr
              /\ born' = born
              /\ toServer' = toServer
              /\ ev'.sent = <<>>]_vars

\* a key has been skipped on a connected page whose target is off the tail of
\* the active line
C10_Skipped ==
    /\ ev.kind = "char"
    /\ ev.sent = <<>>
    /\ status[ev.client] = "open"
    /\ SkipCase(ev.client)
    /\ \E l \in Range(lines[ev.client]) :
           /\ l.id = activeLineId[ev.client]
           /\ Pt(l.x + l.chars[Len(l.chars)].x, l.y + l.chars[Len(l.chars)].y) # targetPos[ev.client]

\* ------------------------------------------------------------------ C11

\* This step is the server reading a message of this type from connection c.
ServerReads(c, type) ==
    /\ c \in conns
    /\ Len(toServer[c]) > 0
    /\ Head(toServer[c]).type = type
    /\ toServer'[c] = Tail(toServer[c])

\* This step hands msg to every open connection but S, and nothing to S or to
\* anyone else.
RelayedToOthers(S, msg) ==
    \A x \in DOMAIN toClient :
        toClient'[x] = IF x \in conns /\ x # S /\ status[x] = "open"
                       THEN Append(toClient[x], msg) ELSE toClient[x]

\* C11: when the server processes a 'lines' resync from S, the lines of every
\* other owner stay as they were, the lines S owns become the lines of the
\* message that S owns, and the resulting document goes as 'sync' to every
\* connection other than S.
C11_ResyncReplacesOwn ==
    [][\A S \in Clients : ServerReads(S, "lines") =>
          LET data == Head(toServer[S])
          IN  /\ SelectSeq(srvLines', LAMBDA l : l.userId # S)
                    = SelectSeq(srvLines, LAMBDA l : l.userId # S)
              /\ SelectSeq(srvLines', LAMBDA l : l.userId = S)
                    = SelectSeq(data.lines, LAMBDA l : l.userId = S)
              /\ RelayedToOthers(S, [type |-> "sync", lines |-> srvLines'])]_vars

\* C11 happened: a resync that lengthened its sender's line was processed
\* beside another owner's line, and the other page has the sync in its queue
C11_Resynced ==
    \E S, x \in Clients :
        /\ S # x
        /\ toServer[S] # <<>> /\ Head(toServer[S]).type = "updateLine"
        /\ toClient[x] # <<>>
        /\ toClient[x][Len(toClient[x])] = [type |-> "sync", lines |-> srvLines]
        /\ \E i, j \in 1..Len(srvLines) :
              /\ srvLines[i].userId = x
              /\ srvLines[j].userId = S /\ Len(srvLines[j].chars) = 2

\* ------------------------------------------------------------------ C12

\* The messages of one type in a family of queues, as <<connection, position>>
Pending(q, type) ==
    UNION {{<<x, i>> : i \in {k \in 1..Len(q[x]) : q[x][k].type = type}} : x \in DOMAIN q}

LinesPending == Pending(toServer, "lines")

SyncPending == Pending(toClient, "sync")

\* C12: a resync is idempotent.  For every sync on its way to a page, applying
\* it twice to the page's replica gives what applying it once gives; for
\* every 'lines' message on its way to the server, processing it twice from
\* its sender gives the document that processing it once gives.
C12_ResyncIdempotent ==
    /\ \A p \in SyncPending :
          LET message == toClient[p[1]][p[2]]
              once == SyncedLines(lines[p[1]], message)
          IN  SyncedLines(once, message) = once
    /\ \A p \in LinesPending :
          LET data == toServer[p[1]][p[2]]
              once == ResyncedLines(srvLines, p[1], data.lines)
          IN  ResyncedLines(once, p[1], data.lines) = once

\* C12's case: a resync with a line in it is on its way to a server that holds
\* another owner's line and would change the document, and a sync that would
\* change a replica is on its way to a page
C12_ResyncsPending ==
    /\ \E p \in LinesPending :
          LET data == toServer[p[1]][p[2]]
          IN  /\ data.lines # <<>>
              /\ ResyncedLines(srvLines, p[1], data.lines) # srvLines
              /\ \E i \in 1..Len(srvLines) : srvLines[i].userId # p[1]
    /\ \E p \in SyncPending :
          /\ toClient[p[1]][p[2]].lines # <<>>
          /\ toClient[p[1]][p[2]].lines # lines[p[1]]

\* ------------------------------------------------------------------ C13

\* C13: when a participant leaves, the server removes it from the roster,
\* tells every remaining connection userLeft and leaves the document as it
\* was; and a line leaves the server's document only in a step that processes
\* a deleteLines or a 'lines' resync.
C13_LeaveKeepsLines ==
    [][/\ \A S \in Clients : ServerReads(S, "close") =>
              /\ srvLines' = srvLines
              /\ DOMAIN srvUsers' = DOMAIN srvUsers \ {S}
              /\ \A u \in DOMAIN srvUsers' : srvUsers'[u] = srvUsers[u]
              /\ RelayedToOthers(S, [type |-> "userLeft", userId |-> S])
       /\ ~(LineIds(srvLines) \subseteq LineIds(srvLines')) =>
              \E S \in Clients : ServerReads(S, "deleteLines") \/ ServerReads(S, "lines")]_vars

\* C13 happened: a participant who owns a line of the document has left, the
\* server has processed it and the page that stays has removed it from its
\* roster
C13_Orphaned ==
    \E S, x \in Clients :
        /\ status[S] = "closed" /\ S \notin conns /\ S \notin DOMAIN srvUsers
        /\ \E i \in 1..Len(srvLines) : srvLines[i].userId = S
        /\ status[x] = "open" /\ toClient[x] = <<>> /\ S \notin DOMAIN remoteUsers[x]

\* ------------------------------------------------------------------ C14

\* The last event is a clear-all by a connected page, issued while the
\* server's document held a line of a participant whose page had closed.
ClearedAfterLeave ==
    /\ ev.kind = "clearall"
    /\ ev.orphans # {}
    /\ status[ev.client] = "open"

\* Once the clear-all's messages are processed the server's document is
\* empty, the replica of the page that cleared is empty, and every other
\* connected replica is empty once it has processed what it was sent.
AllCleared ==
    LET P2 == ev.client
    IN  toServer[P2] = <<>> =>
            /\ srvLines = <<>>
            /\ toClient[P2] = <<>> => lines[P2] = <<>>
            /\ \A x \in Clients \ {P2} :
                  status[x] = "open" /\ x \in conns /\ toClient[x] = <<>> => lines[x] = <<>>

Connects(S) == status[S] = "idle" /\ status'[S] = "open"

\* C15: fan-out without echo.  Each cursor, addLine, updateLine, deleteLines
\* and lines message the server accepts from S goes, as the corresponding
\* message, to every connection other than S and never to S; init goes to the
\* joiner only and userJoined to the others only.
C15_FanOutWithoutEcho ==
    [][\A S \in Clients :
          LET data == Head(toServer[S])
          IN  /\ ServerReads(S, "cursor") =>
                    RelayedToOthers(S, [type |-> "cursor", userId |-> S, cursor |-> data.cursor])
              /\ ServerReads(S, "addLine") =>
                    RelayedToOthers(S, [type |-> "addLine", line |-> data.line])
              /\ ServerReads(S, "updateLine") =>
                    RelayedToOthers(S, [type |-> "updateLine", line |-> data.line])
              /\ ServerReads(S, "deleteLines") =>
                    RelayedToOthers(S, [type |-> "deleteLines", lineIds |-> data.lineIds])
              /\ ServerReads(S, "lines") =>
                    RelayedToOthers(S, [type |-> "sync", lines |-> srvLines'])
              /\ Connects(S) =>
                    /\ Len(toClient'[S]) = Len(toClient[S]) + 1
                    /\ SubSeq(toClient'[S], 1, Len(toClient[S])) = toClient[S]
                    /\ toClient'[S][Len(toClient'[S])].type = "init"
                    /\ toClient'[S][Len(toClient'[S])].userId = S
                    /\ \A x \in Clients \ {S} :
                          \/ /\ x \in conns /\ status[x] = "open"
                             /\ Len(toClient'[x]) = Len(toClient[x]) + 1
                             /\ SubSeq(toClient'[x], 1, Len(toClient[x])) = toClient[x]
                             /\ toClient'[x][Len(toClient'[x])].type = "userJoined"
                             /\ toClient'[x][Len(toClient'[x])].user.id = S
                          \/ /\ ~(x \in conns /\ status[x] = "open")
                             /\ toClient'[x] = toClient[x]]_vars

\* C15 happened: the other page has been handed the sender's updateLine, the
\* sender's own queue holds none of the relayed messages, and both joined
C15_Relayed ==
    \E S, x \in Clients :
        /\ S # x
        /\ currentUser[S] # <<>> /\ currentUser[x] # <<>>
        /\ toClient[x] # <<>>
        /\ toClient[x][Len(toClient[x])].type = "updateLine"
        /\ toClient[x][Len(toClient[x])].line.userId = S
        /\ \A i \in 1..Len(toClient[S]) : toClient[S][i].type \in {"init", "userJoined", "userLeft"}

\* ------------------------------------------------------------------ C16

\* This step is page c's hook reading a message of this type.
ClientReads(c, type) ==
    /\ status[c] = "open"
    /\ Len(toClient[c]) > 0
    /\ Head(toClient[c]).type = type
    /\ toClient'[c] = Tail(toClient[c])
    /\ status'[c] = "open"

\* This step is page c's render throwing on a message of this type.
ClientCrashesOn(c, type) ==
    /\ status[c] = "open"
    /\ Len(toClient[c]) > 0
    /\ Head(toClient[c]).type = type
    /\ status'[c] = "closed"

\* C16: a malformed payload is discarded.  The server leaves the room state
\* unchanged and relays nothing when it reads one; a page leaves its replica
\* and roster unchanged, and stays connected, when it reads one.
C16_MalformedDiscarded ==
    [][\A c \in Clients :
          /\ ServerReads(c, "malformed") =>
                /\ srvLines' = srvLines
                /\ srvUsers' = srvUsers
                /\ toClient' = toClient
          /\ ClientReads(c, "malformed") \/ ClientCrashesOn(c, "malformed") =>
                /\ lines'[c] = lines[c]
                /\ remoteUsers'[c] = remoteUsers[c]
                /\ status'[c] = status[c]]_vars

\* ------------------------------------------------------------------ C17

\* C17: stale references are no-ops.  An updateLine naming a line id the
\* receiving document lacks leaves that document unchanged, at the server and
\* at a page; a deleteLines naming only ids the document lacks removes
\* nothing.
C17_StaleIsNoOp ==
    [][\A c \in Clients :
          /\ ServerReads(c, "updateLine") /\ Head(toServer[c]).line.id \notin LineIds(srvLines)
                => srvLines' = srvLines
          /\ ServerReads(c, "deleteLines") /\ Head(toServer[c]).lineIds \cap LineIds(srvLines) = {}
                => srvLines' = srvLines
          /\ ClientReads(c, "updateLine") /\ Head(toClient[c]).line.id \notin LineIds(lines[c])
                => lines'[c] = lines[c]
          /\ ClientReads(c, "deleteLines") /\ Head(toClient[c]).lineIds \cap LineIds(lines[c]) = {}
                => lines'[c] = lines[c]]_vars

\* C17 happened: a Backspace removed a line beside another owner's line; the
\* resync took the line out of the server's document and of the other
\* replica, and the deleteLines that followed it, naming only that line, has
\* been processed by both
C17_StaleDeleteProcessed ==
    /\ ev.kind = "Backspace"
    /\ Len(ev.sent) = 2
    /\ ev.sent[1] = [type |-> "lines", lines |-> <<>>]
    /\ ev.sent[2].type = "deleteLines"
    /\ Quiescent
    /\ srvLines # <<>>
    /\ \A x \in Clients \ {ev.client} : status[x] = "open" /\ lines[x] = srvLines

\* ------------------------------------------------------------------ C18

\* The values the present participants hold on one axis
HeldColors == {srvUsers[u].color : u \in DOMAIN srvUsers}

HeldFonts == {srvUsers[u].fontFamily : u \in DOMAIN srvUsers}

HeldSizes == {srvUsers[u].fontSize : u \in DOMAIN srvUsers}

\* C18: style assignment on join.  On each axis, a participant who joins
\* while fewer participants are present than the axis has values receives a
\* value that no present participant holds.
C18_JoinerGetsUnusedStyle ==
    [][\A S \in DOMAIN status : Connects(S) =>
          LET present == Cardinality(DOMAIN srvUsers)
              user == srvUsers'[S]
          IN  /\ present < Len(COLORS) => user.color \notin HeldColors
              /\ present < Len(FONT_FAMILIES) => user.fontFamily \notin HeldFonts
              /\ present < Len(FONT_SIZES) => user.fontSize \notin HeldSizes]_vars

\* C18 happened: three participants are present and hold three colours,
\* three font families and three font sizes
C18_ThreeDistinct ==
    /\ Cardinality(DOMAIN srvUsers) = 3
    /\ Cardinality(HeldColors) = 3
    /\ Cardinality(HeldFonts) = 3
    /\ Cardinality(HeldSizes) = 3

\* ------------------------------------------------------------------ C19

\* C19: whenever at most 7 participants are present their colours are
\* pairwise distinct, and whenever at most 3 are present their font families
\* and their font sizes are pairwise distinct.
C19_PresentStylesDistinct ==
    LET present == Cardinality(DOMAIN srvUsers)
    IN  /\ present <= Len(COLORS) => Cardinality(HeldColors) = present
        /\ present <= Len(FONT_FAMILIES) => Cardinality(HeldFonts) = present
        /\ present <= Len(FONT_SIZES) => Cardinality(HeldSizes) = present

\* ------------------------------------------------------------------ C20

\* Typing chars[i..] one key at a time on page c: each key is one handleKeyDown
\* with the refs equal to the state the previous key left (ls, activeId, n
\* ids generated)
RECURSIVE TypedOneByOne(_, _, _, _, _, _)
TypedOneByOne(c, chars, i, activeId, ls, n) ==
    IF i > Len(chars)
    THEN [newActiveId |-> activeId, newLines |-> ls]
    ELSE LET result == addCharToCanvas(c, chars[i], activeId, ls, n)
         IN  TypedOneByOne(c, chars, i + 1, result.newActiveId,
                 IF result.set THEN result.newLines ELSE ls, n + result.used)

\* This step is a paste on page c.
Pastes(c) == ev'.kind = "paste" /\ ev'.client = c /\ nInputs' = nInputs + 1

\* A document without its ids: what the canvas shows
Shown(ls) ==
    [i \in 1..Len(ls) |->
        [x |-> ls[i].x, y |-> ls[i].y, userId |-> ls[i].userId,
         chars |-> [k \in 1..Len(ls[i].chars) |->
                       [value |-> ls[i].chars[k].value,
                        x |-> ls[i].chars[k].x, y |-> ls[i].chars[k].y]]]]

\* C20: paste equals sequential typing.  Pasting printable characters in
\* TYPING mode leaves the page's document and active line as typing the same
\* characters one key at a time with the same target leaves them (ids apart:
\* the same lines with the same glyphs at the same places, the active line at
\* the same position of the document).
C20_PasteEqualsTyping ==
    [][\A c \in Clients : \A text \in PasteTexts :
          Pastes(c) /\ mode[c] = TYPING =>
              LET typed == TypedOneByOne(c, text, 1, activeLineId[c], lines[c], idCtr[c])
              IN  /\ Shown(lines'[c]) = Shown(typed.newLines)
                  /\ FindIndex(lines'[c], activeLineId'[c])
                        = FindIndex(typed.newLines, typed.newActiveId)]_vars

\* ------------------------------------------------------------------ C21

\* Scenario A so far: the first page's user, having received init, has typed
\* two glyphs onto one line (a key, the pointer LETTER_SPACING away, a key)
\* and nothing else was ever created; the second page has joined.
ScenarioA ==
    LET P1 == ClientNames[1]
        P2 == ClientNames[2]
    IN  /\ ev.kind = "char" /\ ev.client = P1
        /\ DOMAIN born = {<<P1, 1>>}
        /\ born[<<P1, 1>>].userId = P1
        /\ Len(lines[P1]) = 1 /\ Len(lines[P1][1].chars) = 2
        /\ status[P1] = "open"
        /\ status[P2] = "open" /\ currentUser[P2] # <<>>

\* A document of exactly one line with exactly two glyphs, the first at (0,0)
OneLineTwoGlyphs(d) ==
    /\ Len(d) = 1
    /\ Len(d[1].chars) = 2
    /\ d[1].chars[1].x = 0 /\ d[1].chars[1].y = 0

\* C21: scenario A.  P1 joins an empty room, receives init and types two
\* characters, the target LETTER_SPACING away for the second; once every
\* message has been processed and delivered, the server's document and the
\* replica of P2 are one line with two glyphs, the first at offset (0,0).
C21_ScenarioAConverges ==
    ScenarioA /\ Quiescent =>
        /\ OneLineTwoGlyphs(srvLines)
        /\ OneLineTwoGlyphs(lines[ClientNames[2]])
        /\ srvLines = lines[ClientNames[1]]
        /\ lines[ClientNames[2]] = lines[ClientNames[1]]

\* C21 happened: scenario A has run to the end and P1's init snapshot was
\* empty
C21_ScenarioADone ==
    /\ ScenarioA
    /\ Quiescent
    /\ joinSnap[ClientNames[1]][1].lines = <<>>
    /\ Len(srvLines) = 1

\* ------------------------------------------------------------------ C22

\* The number of glyphs of line L, the one line of scenario B, in document d;
\* -1 when d does not hold L
GlyphsOfL(d) ==
    LET L == FindLine(d, <<ClientNames[1], 1>>)
    IN  IF L = <<>> THEN -1 ELSE Len(L[1].chars)

\* C22 as stated (scenario B): P1 creates line L with 3 glyphs, then
\* truncates twice; the document shows L with 1 glyph after the first
\* truncation and L removed after the second.
C22_OneGlyphThenRemoved ==
    LET d == lines[ClientNames[1]]
    IN  /\ nInputs = 5 => GlyphsOfL(d) = 3
        /\ nInputs = 6 => GlyphsOfL(d) = 1
        /\ nInputs = 7 => GlyphsOfL(d) = -1

\* C22, amended: L has 3 glyphs, 2 after the first truncation, 1 after the
\* second, and is removed by the third; once everything is delivered the
\* server and the other page show the same.
C22_OneGlyphPerBackspace ==
    LET d == lines[ClientNames[1]]
    IN  /\ nInputs = 5 => GlyphsOfL(d) = 3
        /\ nInputs = 6 => GlyphsOfL(d) = 2
        /\ nInputs = 7 => GlyphsOfL(d) = 1
        /\ nInputs = 8 => d = <<>>
        /\ nInputs >= 5 /\ Quiescent => srvLines = d /\ lines[ClientNames[2]] = d

\* C22 happened: the three truncations are done and delivered, the line is
\* gone everywhere
C22_ScenarioBDone ==
    /\ nInputs = 8
    /\ ev.kind = "Backspace"
    /\ MsgTypes(ev.sent) = <<"lines", "deleteLines">>
    /\ Quiescent
    /\ srvLines = <<>>

\* ------------------------------------------------------------------ C23

\* Page c's user presses Backspace in Composing mode while the socket is not
\* closed
TypingBackspaces(c) ==
    /\ nInputs' = nInputs + 1
    /\ ev'.client = c /\ ev'.kind = "Backspace"
    /\ mode[c] = TYPING
    /\ status[c] # "closed"

\* The lines of d with their last glyph removed where the id is `id`
Truncated(d, id) ==
    [i \in 1..Len(d) |->
        IF d[i].id = id
        THEN [d[i] EXCEPT !.chars = SubSeq(@, 1, Len(@) - 1)]
        ELSE d[i]]

BackspaceTruncates(c) ==
    LET a == activeLineId[c]
        line == FindLine(lines[c], a)
        owned == a # NoLine /\ line # <<>> /\ currentUser[c] # <<>>
                 /\ line[1].userId = currentUser[c][1].id
    IN  IF owned /\ Len(line[1].chars) >= 2
        THEN /\ lines'[c] = Truncated(lines[c], a)
             /\ activeLineId'[c] = a
             /\ \E i \in 1..Len(ev'.sent) :
                    /\ ev'.sent[i].type = "updateLine"
                    /\ ev'.sent[i].line = FindLine(lines'[c], a)[1]
             /\ "deleteLines" \notin Range(MsgTypes(ev'.sent))
        ELSE IF owned /\ Len(line[1].chars) = 1
        THEN /\ lines'[c] = SelectSeq(lines[c], LAMBDA l : l.id # a)
             /\ \A i \in 1..Len(lines'[c]) : lines'[c][i].chars # <<>>
             /\ activeLineId'[c] = NoLine
             /\ \E i \in 1..Len(ev'.sent) :
                    /\ ev'.sent[i].type = "deleteLines"
                    /\ ev'.sent[i].lineIds = {a}
             /\ "updateLine" \notin Range(MsgTypes(ev'.sent))
        ELSE IF a = NoLine \/ (line # <<>> /\ ~owned)
        THEN /\ UNCHANGED <<lines, activeLineId, selectedLineIds, mode, toServer>>
             /\ ev'.sent = <<>>
        ELSE TRUE

\* C23: in Composing mode, on a page whose connection has not closed,
\* Backspace on the participant's own active line of
\* n >= 2 glyphs keeps its first n-1 glyphs, keeps it active and sends
\* updateLine; on a line of one glyph it removes the line, clears the active
\* line and sends deleteLines for that id; with no active line, or an active
\* line of another owner, nothing changes and nothing is sent.
C23_BackspaceTruncates ==
    [][\A c \in DOMAIN status : TypingBackspaces(c) => BackspaceTruncates(c)]_vars

\* C23 happened: Backspace shortened a line of two glyphs to one, which is
\* still the active line, and sent the updateLine
C23_Truncated ==
    LET c == ev.client
        line == FindLine(lines[c], activeLineId[c])
    IN  /\ ev.kind = "Backspace"
        /\ MsgTypes(ev.sent) = <<"lines", "updateLine">>
        /\ line # <<>>
        /\ Len(line[1].chars) = 1
        /\ ev.sent[2].line = line[1]

\* ------------------------------------------------------------------ C24

\* What the second page shows in Typed: the first user's line, which the
\* server holds twice, and its own
ReplicaC == <<TypedLine(1), TypedLine(1), TypedLine(2)>>

\* C24 (scenario C): in NAVIGATION mode P2 presses P1's line and moves the
\* pointer: no drag is started, P2's replica is what it was after the press
\* and after every pointer move, and P2 sends no updateLine (nothing but
\* cursor positions), so the server's document does not change either.
C24_ForeignLineNotDragged ==
    LET P2 == ClientNames[2]
    IN  /\ draggingLineId[P2] = NoLine
        /\ lines[P2] = ReplicaC
        /\ \A i \in 1..Len(toServer[P2]) : toServer[P2][i].type = "cursor"
        /\ ev.client = P2 /\ nInputs > 2 => \A i \in 1..Len(ev.sent) : ev.sent[i].type = "cursor"
        /\ srvLines = <<TypedLine(1), TypedLine(1), TypedLine(2), TypedLine(2)>>

\* C24 happened: P2 has pressed P1's line, which is selected, has moved the
\* pointer away with the button held, and the move has been delivered
C24_DraggedInVain ==
    LET P2 == ClientNames[2]
    IN  /\ nInputs = 2 + 4
        /\ ev.client = P2 /\ ev.kind = "mousemove"
        /\ mode[P2] = NAVIGATION
        /\ selectedLineIds[P2] = {<<ClientNames[1], 1>>}
        /\ targetPos[P2] # WindowCentre
        /\ Quiescent

\* ------------------------------------------------------------------ C25

\* Page c's user presses Escape
Escapes(c) ==
    /\ nInputs' = nInputs + 1
    /\ ev'.client = c /\ ev'.kind = "Escape"

EscapeToggles(c) ==
    /\ mode[c] = TYPING =>
           /\ mode'[c] = NAVIGATION
           /\ activeLineId'[c] = NoLine
           /\ selectedLineIds'[c] = {}
    /\ mode[c] = NAVIGATION => mode'[c] = TYPING
    /\ ev'.sent = <<>>
    /\ UNCHANGED <<lines, srvLines, toServer, toClient>>

\* C25: every page starts in TYPING mode and is always in TYPING or in
\* NAVIGATION mode; Escape in TYPING mode leads to NAVIGATION mode with no
\* active line and an empty selection, Escape in NAVIGATION mode leads to
\* TYPING mode; Escape changes no document and sends no message.
C25_ModeMachine ==
    /\ \A c \in Clients : mode[c] = TYPING
    /\ [](\A c \in Clients : mode[c] \in {TYPING, NAVIGATION})
    /\ [][\A c \in Clients : Escapes(c) => EscapeToggles(c)]_vars

\* C25 happened: a user who has typed a line went to NAVIGATION mode and
\* came back with Escape, the line still in the replica
C25_BackInTyping ==
    /\ ev.kind = "Escape"
    /\ mode[ev.client] = TYPING
    /\ activeLineId[ev.client] = NoLine
    /\ lines[ev.client] # <<>>

\* ------------------------------------------------------------------ C26

\* Page c's user types a printable character in Composing mode, the socket
\* open, with no active line, an active id the replica does not hold, or an
\* active line of another owner
TypesWithoutOwnActiveLine(c) ==
    /\ nInputs' = nInputs + 1
    /\ ev'.client = c /\ ev'.kind = "char"
    /\ mode[c] = TYPING
    /\ status[c] = "open"
    /\ LET line == FindLine(lines[c], activeLineId[c])
       IN  \/ activeLineId[c] = NoLine
           \/ line = <<>>
           \/ currentUser[c] = <<>>
           \/ line[1].userId # currentUser[c][1].id

\* The replica of page c gains one line at the target, with one glyph, in
\* the participant's name and style; it is the active line and an addLine
\* carries it
CreatesOwnLine(c) ==
    /\ Len(lines'[c]) = Len(lines[c]) + 1
    /\ SubSeq(lines'[c], 1, Len(lines[c])) = lines[c]
    /\ LET L == lines'[c][Len(lines'[c])]
       IN  /\ Pt(L.x, L.y) = targetPos[c]
           /\ Len(L.chars) = 1 /\ L.chars[1].value \in Keys
           /\ L.id \notin LineIds(lines[c])
           /\ activeLineId'[c] = L.id
           /\ \E i \in 1..Len(ev'.sent) :
                  ev'.sent[i].type = "addLine" /\ ev'.sent[i].line = L
           /\ c \in DOMAIN srvUsers
           /\ L.userId = srvUsers[c].id
           /\ L.color = srvUsers[c].color
           /\ L.fontSize = srvUsers[c].fontSize
           /\ L.fontFamily = srvUsers[c].fontFamily

\* C26: in Composing mode a printable character typed with no active line,
\* with an active line id that is not in the replica, or with an active line
\* of another owner creates a line at the current target whose owner and
\* style are the typing participant's and which holds exactly that glyph;
\* the line becomes the active line and an addLine carrying it is sent.
C26_NewLineIsTypists ==
    [][\A c \in Clients : TypesWithoutOwnActiveLine(c) => CreatesOwnLine(c)]_vars

\* ------------------------------------------------------------------ C27

\* Page c's user presses Enter in Composing mode
Enters(c) ==
    /\ nInputs' = nInputs + 1
    /\ ev'.client = c /\ ev'.kind = "Enter"
    /\ mode[c] = TYPING

\* The input after page c's Enter is a printable character on the same page
TypesAfterEnter(c) ==
    /\ ev.client = c /\ ev.kind = "Enter"
    /\ nInputs' = nInputs + 1
    /\ ev'.client = c /\ ev'.kind = "char"
    /\ mode[c] = TYPING

\* The replica keeps every line as it was and gains a line of one glyph at
\* the target, which is the active line
StartsFreshLine(c) ==
    /\ Len(lines'[c]) = Len(lines[c]) + 1
    /\ SubSeq(lines'[c], 1, Len(lines[c])) = lines[c]
    /\ LET L == lines'[c][Len(lines'[c])]
       IN  /\ Pt(L.x, L.y) = targetPos[c]
           /\ Len(L.chars) = 1
           /\ L.id \notin LineIds(lines[c])
           /\ activeLineId'[c] = L.id

\* C27: Enter in Composing mode clears the active line, leaves the replica
\* unchanged and sends no message; the next printable character creates a
\* fresh line at the target of that moment and appends to no line.
C27_EnterStartsFreshLine ==
    [][\A c \in Clients :
          /\ Enters(c) =>
                 /\ activeLineId'[c] = NoLine
                 /\ ev'.sent = <<>>
                 /\ UNCHANGED <<lines, srvLines, toServer, toClient, mode, selectedLineIds, targetPos>>
          /\ TypesAfterEnter(c) => StartsFreshLine(c)]_vars

\* C27 happened: a user typed a character, which made a line and made it
\* the active line, and then pressed Enter: the line is in the replica and
\* no line is active
C27_EnterCleared ==
    LET c == ev.client
    IN  /\ ev.kind = "Enter"
        /\ nInputs = 2
        /\ mode[c] = TYPING
        /\ Len(lines[c]) = 1
        /\ lines[c][1].id \in DOMAIN born
        /\ activeLineId[c] = NoLine

\* ------------------------------------------------------------------ C28

\* Line `id` of page c's replica is owned by page c's user
OwnLine(c, id) ==
    LET line == FindLine(lines[c], id)
    IN  /\ line # <<>>
        /\ currentUser[c] # <<>>
        /\ line[1].userId = currentUser[c][1].id

\* C28: in Composing mode a click on a line of the replica owned by this
\* participant makes it the active line, a click on a line of another owner
\* leaves the active line id as it was; neither changes a document nor
\* sends a message.
C28_ClickActivatesOwnLine ==
    [][\A c \in Clients : \A id \in LineIds(lines[c]) : \A shiftKey \in BOOLEAN :
          LineMouseDown(c, id, shiftKey) /\ mode[c] = TYPING =>
              /\ activeLineId'[c] = IF OwnLine(c, id) THEN id ELSE activeLineId[c]
              /\ ev'.sent = <<>>
              /\ UNCHANGED <<lines, srvLines, toServer, toClient>>]_vars

\* C28 happened: in Composing mode a user whose replica also shows a line of
\* another owner has clicked a line, and the own line is the active line
C28_OwnLineActive ==
    LET c == ev.client
    IN  /\ ev.kind = "linedown"
        /\ mode[c] = TYPING
        /\ activeLineId[c] # NoLine
        /\ OwnLine(c, activeLineId[c])
        /\ \E i \in 1..Len(lines[c]) : ~OwnLine(c, lines[c][i].id)

\* ------------------------------------------------------------------ C29

\* C29: in Arranging mode a press on a line without shift makes the
\* selection exactly that line; with shift it adds the line if absent and
\* removes it if present, the other members staying; a press on the empty
\* canvas empties the selection.  The owner of the line does not matter and
\* no document changes.
C29_SelectionFollowsClicks ==
    [][\A c \in Clients :
          /\ \A id \in LineIds(lines[c]) :
                 /\ LineMouseDown(c, id, FALSE) /\ mode[c] = NAVIGATION =>
                        selectedLineIds'[c] = {id}
                 /\ LineMouseDown(c, id, TRUE) /\ mode[c] = NAVIGATION =>
                        /\ id \in selectedLineIds'[c] <=> id \notin selectedLineIds[c]
                        /\ selectedLineIds'[c] \ {id} = selectedLineIds[c] \ {id}
          /\ StageMouseDown(c) /\ mode[c] = NAVIGATION => selectedLineIds'[c] = {}
          /\ nInputs' = nInputs + 1 /\ ev'.client = c /\ ev'.kind \in {"linedown", "stagedown"} =>
                 /\ ev'.sent = <<>>
                 /\ UNCHANGED <<lines, srvLines, toServer, toClient>>]_vars

\* C29 happened: a user in Arranging mode has selected an own line and a line
\* of another owner together
C29_BothSelected ==
    LET c == ev.client
    IN  /\ ev.kind = "linedown"
        /\ mode[c] = NAVIGATION
        /\ \E id \in selectedLineIds[c] : OwnLine(c, id)
        /\ \E id \in selectedLineIds[c] : FindLine(lines[c], id) # <<>> /\ ~OwnLine(c, id)

\* ------------------------------------------------------------------ C30

\* Page c's user presses Delete or Backspace in Arranging mode while the
\* socket is not closed
NavigationDeletes(c) ==
    /\ nInputs' = nInputs + 1
    /\ ev'.client = c /\ ev'.kind \in {"Backspace", "Delete"}
    /\ mode[c] = NAVIGATION
    /\ status[c] # "closed"

\* The ids the deleteLines messages of the last event name
DeletedIds(sent) ==
    UNION {sent[i].lineIds : i \in {j \in 1..Len(sent) : sent[j].type = "deleteLines"}}

DeletesSelectedOwnLines(c) ==
    LET removed == {id \in selectedLineIds[c] : OwnLine(c, id)}
    IN  /\ lines'[c] = SelectSeq(lines[c], LAMBDA l : l.id \notin removed)
        /\ \A i \in 1..Len(lines[c]) :
               ~(lines[c][i].id \in selectedLineIds[c] /\ lines[c][i].userId = c)
                   => lines[c][i] \in Range(lines'[c])
        /\ DeletedIds(ev'.sent) = removed
        /\ HowMany(MsgTypes(ev'.sent), "deleteLines") = (IF removed = {} THEN 0 ELSE 1)
        /\ removed = {} => ev'.sent = <<>>
        /\ selectedLineIds'[c] = {}

\* C30: in Arranging mode, on a page whose connection has not closed, Delete
\* or Backspace removes from the replica exactly the selected lines owned by
\* this participant, leaves the selected lines of other owners and the
\* unselected lines in place, sends one deleteLines naming exactly the
\* removed ids (nothing if no line was removed) and empties the selection.
C30_DeleteRemovesSelectedOwn ==
    [][\A c \in Clients : NavigationDeletes(c) => DeletesSelectedOwnLines(c)]_vars

\* C30 happened: with an own line and a line of another owner selected, the
\* user pressed Delete: the own line is gone, the other's is still there,
\* the selection is empty
C30_OwnDeletedForeignKept ==
    LET c == ev.client
    IN  /\ ev.kind \in {"Backspace", "Delete"}
        /\ mode[c] = NAVIGATION
        /\ HowMany(MsgTypes(ev.sent), "deleteLines") = 1
        /\ selectedLineIds[c] = {}
        /\ \A i \in 1..Len(lines[c]) : lines[c][i].userId # c
        /\ lines[c] # <<>>

\* ------------------------------------------------------------------ C31

\* The step is an input of page c's user of one of the kinds
InputOf(c, kinds) ==
    /\ nInputs' = nInputs + 1
    /\ ev'.client = c /\ ev'.kind \in kinds

\* A press on an own line in Arranging mode records the line and the
\* displacement: the pointer minus the line's origin
PressStartsDrag(c) ==
    \A id \in LineIds(lines[c]) : \A shiftKey \in BOOLEAN :
        LineMouseDown(c, id, shiftKey) /\ mode[c] = NAVIGATION /\ OwnLine(c, id) =>
            LET line == FindLine(lines[c], id)[1]
            IN  /\ draggingLineId'[c] = id
                /\ dragOffset'[c] = Pt(targetPos[c].x - line.x, targetPos[c].y - line.y)

\* Line and displacement stay until the next press or the release
DragHeld(c) ==
    /\ draggingLineId'[c] # draggingLineId[c] => InputOf(c, {"linedown", "mouseup"})
    /\ dragOffset'[c] # dragOffset[c] => InputOf(c, {"linedown"})

\* A pointer move during the drag puts the line at the pointer minus the
\* displacement, glyphs untouched, and sends the updateLine
MoveRelocates(c) ==
    LET id == draggingLineId[c]
        p == targetPos'[c]
    IN  /\ InputOf(c, {"mousemove"})
        /\ id # NoLine /\ OwnLine(c, id)
        /\ mode[c] = NAVIGATION
        /\ status[c] # "closed"
        => LET old == FindLine(lines[c], id)[1]
               new == FindLine(lines'[c], id)
           IN  /\ new # <<>>
               /\ new[1] = [old EXCEPT !.x = p.x - dragOffset[c].x, !.y = p.y - dragOffset[c].y]
               /\ new[1].chars = old.chars
               /\ \A i \in 1..Len(lines[c]) : lines[c][i].id # id => lines'[c][i] = lines[c][i]
               /\ \E i \in 1..Len(ev'.sent) :
                      ev'.sent[i].type = "updateLine" /\ ev'.sent[i].line = new[1]

\* The release ends the drag; with no drag a pointer move relocates nothing
ReleaseEndsDrag(c) ==
    /\ InputOf(c, {"mouseup"}) => draggingLineId'[c] = NoLine
    /\ InputOf(c, {"mousemove"}) /\ draggingLineId[c] = NoLine =>
           /\ lines' = lines
           /\ MsgTypes(ev'.sent) \in {<<>>, <<"cursor">>}

\* C31: from the press on an own line in Arranging mode until the release,
\* every pointer move to p puts the dragged line's origin at p minus the
\* displacement (pointer at the press minus origin at the press), leaves its
\* glyph offsets unchanged and sends an updateLine with that origin; after
\* the release pointer moves relocate no line.
C31_DragTracksPointer ==
    [][\A c \in Clients :
          /\ PressStartsDrag(c)
          /\ DragHeld(c)
          /\ MoveRelocates(c)
          /\ ReleaseEndsDrag(c)]_vars

\* C31 happened: the user pressed the own line with the pointer off its
\* origin, dragged it, released and moved the pointer again; the line sits
\* where the drag left it, away from the pointer minus the displacement, and
\* the server and the other page hold it there
C31_Dropped ==
    LET P1 == ClientNames[1]
        L == FindLine(lines[P1], <<P1, 1>>)
    IN  /\ nInputs = 2 + 7
        /\ ev.kind = "mousemove" /\ MsgTypes(ev.sent) = <<"cursor">>
        /\ dragOffset[P1] # Pt(0, 0)
        /\ L # <<>>
        /\ Pt(L[1].x, L[1].y) # WindowCentre
        /\ Pt(L[1].x, L[1].y) # Pt(targetPos[P1].x - dragOffset[P1].x, targetPos[P1].y - dragOffset[P1].y)
        /\ Quiescent
        /\ FindLine(srvLines, <<P1, 1>>) = L
        /\ FindLine(lines[ClientNames[2]], <<P1, 1>>) = L

\* ------------------------------------------------------------------ C32

\* C32: every input of a page with an open socket that changes the page's
\* target point (a pointer move, an arrow key, a click on the empty canvas
\* in Composing mode) sends a cursor message carrying the new target, in
\* both modes.
C32_TargetChangeSendsCursor ==
    [][\A c \in Clients :
          /\ nInputs' = nInputs + 1
          /\ ev'.client = c
          /\ status[c] = "open"
          /\ targetPos'[c] # targetPos[c]
          => \E i \in 1..Len(ev'.sent) :
                 ev'.sent[i] = [type |-> "cursor", cursor |-> targetPos'[c]]]_vars

\* ------------------------------------------------------------------ C33

\* The server stores the cursor it reads from S and touches nothing else
CursorStored(S) ==
    ServerReads(S, "cursor") =>
        /\ S \in DOMAIN srvUsers
        /\ srvUsers' = [srvUsers EXCEPT ![S].cursor = Head(toServer[S]).cursor]
        /\ srvLines' = srvLines

\* The init a joiner gets carries every participant's stored cursor
InitCarriesCursors(x) ==
    Connects(x) =>
        LET m == toClient'[x][Len(toClient'[x])]
        IN  /\ m.type = "init"
            /\ \A S \in DOMAIN srvUsers :
                   S \in DOMAIN m.state.users /\ m.state.users[S].cursor = srvUsers[S].cursor

\* Every roster entry of an initialised open page holds the cursor the
\* server stores for that participant
RosterCursorsAgree ==
    \A x \in Clients : status[x] = "open" /\ currentUser[x] # <<>> =>
        \A S \in DOMAIN remoteUsers[x] \cap DOMAIN srvUsers :
            remoteUsers[x][S].cursor = srvUsers[S].cursor

\* C33: on a cursor message from S the server sets S's stored cursor to the
\* received point and leaves the document and the other participants'
\* records unchanged; once everything is delivered every other page's roster
\* entry for S holds that point; a participant joining afterwards receives
\* it in init.
C33_CursorReplicated ==
    /\ [][\A S \in Clients : CursorStored(S) /\ InitCarriesCursors(S)]_vars
    /\ [](Quiescent => RosterCursorsAgree)

\* C33 happened: the first user moved the pointer, the second joined after
\* the server had stored it and got it in init; the first user moved again,
\* and all is delivered
C33_CursorEverywhere ==
    LET P1 == ClientNames[1]
        P2 == ClientNames[2]
    IN  /\ Quiescent
        /\ status[P2] = "open" /\ currentUser[P2] # <<>>
        /\ joinSnap[P2] # <<>>
        /\ P1 \in DOMAIN joinSnap[P2][1].users /\ P1 \in DOMAIN srvUsers
        /\ joinSnap[P2][1].users[P1].cursor # Pt(0, 0)
        /\ P1 \in DOMAIN remoteUsers[P2]
        /\ remoteUsers[P2][P1].cursor = srvUsers[P1].cursor
        /\ srvUsers[P1].cursor # joinSnap[P2][1].users[P1].cursor
        /\ srvUsers[P1].cursor = targetPos[P1]

\* ------------------------------------------------------------------ C34

\* 10^-14, in 10^-18
ResidualBound == 10000

\* The consecutive glyph pairs <<g, h>> of the first user's replica
GlyphPairs ==
    LET d == lines[ClientNames[1]]
    IN  UNION {{<<d[i].chars[j], d[i].chars[j + 1]>> : j \in 1..(Len(d[i].chars) - 1)} :
                  i \in 1..Len(d)}

\* h is g shifted by exactly LETTER_SPACING along one axis
ShiftedExactly(g, h) ==
    \/ h.y = g.y /\ h.x \in {FloatAdd(g.x, Nm(LETTER_SPACING, 0)), FloatAdd(g.x, Nm(-LETTER_SPACING, 0))}
    \/ h.x = g.x /\ h.y \in {FloatAdd(g.y, Nm(LETTER_SPACING, 0)), FloatAdd(g.y, Nm(-LETTER_SPACING, 0))}

\* h is g shifted by LETTER_SPACING whole pixels along one axis, give or take
\* less than ResidualBound on either axis
ShiftedNearly(g, h) ==
    /\ \/ h.y.px = g.y.px /\ Abs(h.x.px - g.x.px) = LETTER_SPACING
       \/ h.x.px = g.x.px /\ Abs(h.y.px - g.y.px) = LETTER_SPACING
    /\ Abs(h.x.tiny - g.x.tiny) < ResidualBound
    /\ Abs(h.y.tiny - g.y.tiny) < ResidualBound

NotOwnedBy(userId, s) == SelectSeq(s, LAMBDA l : l.userId # userId)

\* 'Clear my work' of an initialised page: its replica keeps exactly the lines
\* of the other owners, unchanged and in order, and the active line and the
\* selection are cleared; no other page's replica changes in that step
ClearsOwnLocally(c) ==
    InputOf(c, {"clearmine"}) /\ currentUser[c] # <<>> =>
        /\ lines'[c] = NotOwnedBy(UserIdOf(c), lines[c])
        /\ activeLineId'[c] = NoLine
        /\ selectedLineIds'[c] = {}
        /\ \A d \in Clients \ {c} : lines'[d] = lines[d]

\* The server reads one of the messages the last input, a 'Clear my work' of
\* page c, has sent: the lines of the other owners stay as they were
ClearMessagesKeepOthers(c) ==
    /\ ev.kind = "clearmine" /\ ev.client = c
    /\ Len(toServer[c]) <= Len(ev.sent)
    /\ ServerReads(c, "lines") \/ ServerReads(c, "deleteLines")
    => NotOwnedBy(c, srvLines') = NotOwnedBy(c, srvLines)

\* The messages of the last input, a 'Clear my work', have been processed:
\* the server's document has no line of the sender
ClearedAtAuthority ==
    ev.kind = "clearmine" /\ ev.sent # <<>> /\ toServer[ev.client] = <<>> =>
        \A i \in 1..Len(srvLines) : srvLines[i].userId # ev.client

OwnedBy(userId, s) == SelectSeq(s, LAMBDA l : l.userId = userId)

\* Page c processes a relayed message of one of the types: the lines c owns
\* in its replica are the same lines, with the same glyphs, afterwards
KeepsOwnLines(c, types) ==
    (\E type \in types : ClientReads(c, type)) =>
        OwnedBy(c, lines'[c]) = OwnedBy(c, lines[c])

\* C36: while a page stays connected, processing a 'sync', 'addLine' or
\* 'updateLine' received from the server never changes, shortens or removes a
\* line the receiving page owns in its replica.
C36_NoLostLocalEdit ==
    [][\A c \in Clients : KeepsOwnLines(c, {"sync", "addLine", "updateLine"})]_vars

\* ---------------------------------------------------------------- C37

\* The line ids named by the 'deleteLines' messages the server has relayed
\* and that are still on their way to a page.  The server relays a
\* 'deleteLines' only in the step in which it processes one naming the same
\* ids.
RelayedDeletions ==
    UNION {UNION {toClient[c][i].lineIds : i \in {k \in 1..Len(toClient[c]) :
                      toClient[c][k].type = "deleteLines"}} : c \in Clients}

\* C37: once the server has processed a deleteLines naming line id X, X is
\* never again in the server's document, whatever is processed afterwards; in
\* particular no line of the server's document is named by a deletion the
\* server has processed and whose relay is still on its way to a page.
C37_DeletionPermanent ==
    \A i \in 1..Len(srvLines) : srvLines[i].id \notin RelayedDeletions

\* ---------------------------------------------------------------- C38

\* The ids of the participants that are or were connected: the server names
\* a participant after its connection
EverConnected == {c \in Clients : status[c] # "idle"}

\* C38: every line of the server's document has an owner id that is the id of
\* a participant that is or was connected to the room; a page that is
\* connected and has not yet processed 'init' never brings a line with a
\* placeholder owner into the server's document.
C38_OwnersAreParticipants ==
    \A i \in 1..Len(srvLines) : srvLines[i].userId \in EverConnected

\* ---------------------------------------------------------------- C39

\* A roster entry without its cursor, which 'cursor' messages change
Styled(u) == [id |-> u.id, color |-> u.color, fontSize |-> u.fontSize,
              fontFamily |-> u.fontFamily]

\* The server's roster is keyed by exactly the connections the server holds
\* open, and every page whose socket is open is among them
RosterIsConnections ==
    /\ DOMAIN srvUsers = conns
    /\ \A c \in DOMAIN status : status[c] = "open" => c \in DOMAIN srvUsers
    /\ \A c \in DOMAIN srvUsers : srvUsers[c].id = c

\* No page's remote roster has the page's own id
NoSelfInRemoteRoster == \A c \in DOMAIN status : c \notin DOMAIN remoteUsers[c]

\* No userJoined or userLeft is on its way to page c
RosterDelivered(c) ==
    \A i \in 1..Len(toClient[c]) : toClient[c][i].type \notin {"userJoined", "userLeft"}

\* The remote roster of a connected, initialised page to which every
\* userJoined and userLeft has been delivered is the server's roster without
\* the page itself
RemoteRosterAgrees ==
    \A c \in DOMAIN status :
        status[c] = "open" /\ currentUser[c] # <<>> /\ RosterDelivered(c) =>
            /\ DOMAIN remoteUsers[c] = DOMAIN srvUsers \ {c}
            /\ \A u \in DOMAIN remoteUsers[c] :
                   Styled(remoteUsers[c][u]) = Styled(srvUsers[u])

\* C39: in every reachable state the server's roster contains exactly the
\* connections that are open; a page's remote roster never contains the
\* page's own id; and once every userJoined and userLeft has been delivered
\* to a page, its remote roster equals the server's roster minus that page.
C39_RosterConsistent ==
    RosterIsConnections /\ NoSelfInRemoteRoster /\ RemoteRosterAgrees

\* The first page has seen a participant join and another leave: its remote
\* roster is not empty and is the server's roster without itself
C39_JoinedAndLeftSeen ==
    LET P1 == ClientNames[1]
    IN  /\ status[P1] = "open" /\ currentUser[P1] # <<>> /\ toClient[P1] = <<>>
        /\ \E d \in DOMAIN status : status[d] = "closed" /\ d \notin DOMAIN srvUsers
        /\ DOMAIN remoteUsers[P1] # {}
        /\ DOMAIN remoteUsers[P1] = DOMAIN srvUsers \ {P1}

\* ---------------------------------------------------------------- C40

\* A printable key or a paste on page c while it is in NAVIGATION mode
TypesOrPastesArranging(c) ==
    /\ InputOf(c, {"char", "paste"})
    /\ mode[c] = NAVIGATION

\* The step changes no replica and no document and sends nothing
MutatesNothing ==
    /\ ev'.sent = <<>>
    /\ UNCHANGED <<lines, srvLines, toServer, toClient, activeLineId>>

\* C40: whenever a page is in NAVIGATION mode its active line id is none,
\* whatever keys, presses, pastes, double clicks and right clicks led there;
\* and a printable key or a paste in NAVIGATION mode changes no document.
C40_ArrangingHasNoActiveLine ==
    /\ [](\A c \in Clients : mode[c] = NAVIGATION => activeLineId[c] = NoLine)
    /\ [][\A c \in Clients : TypesOrPastesArranging(c) => MutatesNothing]_vars

\* The first user, who owns a line, has typed a key in NAVIGATION mode: the
\* page is still in NAVIGATION mode with no active line and its line is as
\* it was
C40_TypedWhileArranging ==
    LET P1 == ClientNames[1]
    IN  /\ ev.kind = "char" /\ ev.client = P1 /\ ev.sent = <<>>
        /\ mode[P1] = NAVIGATION
        /\ activeLineId[P1] = NoLine
        /\ \E i \in 1..Len(lines[P1]) : lines[P1][i].userId = P1

====
